---- MODULE Spec2Model ----
(***************************************************************************)
(* Model of the Nuke adaptor (NukeAdaptor/adaptor.py) supervising the Nuke *)
(* client process (NukeClient/nuke_client.py, nuke_handler.py).            *)
(*                                                                         *)
(* Threads of execution:                                                   *)
(*   - the control thread running on_start / on_run / on_cleanup, each     *)
(*     read of shared state being a step of its own (pc);                  *)
(*   - the adaptor server thread (start_nuke_server);                      *)
(*   - the Nuke client process (main, poll loop, action handlers);         *)
(*   - the reader of the client's output, which runs the regex callbacks;  *)
(*   - on_cancel, which the runtime calls from outside the control thread. *)
(***************************************************************************)
EXTENDS Integers, Sequences, FiniteSets, TLC

(* ------------------------------ bounds --------------------------------- *)
\* on_run calls made during one session
MaxRuns == 2
\* lines of client output written but not yet read by the adaptor
MaxPipe == 1

(* ------------------------- program constants --------------------------- *)
None == "None"
\* _FIRST_NUKE_ACTIONS, in order
FIRST_NUKE_ACTIONS == <<"script_file">>
NUKE_INIT_KEYS == {"continue_on_error", "proxy", "write_nodes", "views"}
\* the variable _start_nuke_server_thread writes
ADAPTOR_ENV_VAR == "NUKE_ADAPTOR_SOCKET_PATH"
\* the variable NukeClient main() reads
CLIENT_ENV_VAR == "NUKE_ADAPTOR_SERVER_PATH"

(* ------------------------------ inputs --------------------------------- *)
Unset == "<unset>"
SocketPath == "/tmp/9999"
StalePath == "/a/path/that/does/not/exist"
NoExitCode == 99
\* exit codes of a client that stops by itself, and of one that is killed
ExitCodes == {1}
KilledCode == -9

\* init_data that passes the schema: script_file is required, every key of
\* NUKE_INIT_KEYS is optional.
InitDataOf(ks, coe) ==
    [k \in {"script_file"} \cup ks |->
        CASE k = "script_file"       -> "/path/to/some/nukescript.nk"
          [] k = "continue_on_error" -> coe
          [] k = "proxy"             -> FALSE
          [] k = "write_nodes"       -> <<"Write1">>
          [] k = "views"             -> <<"left", "right">>]

ValidInitData ==
    { InitDataOf(ks, coe) : ks \in SUBSET NUKE_INIT_KEYS, coe \in BOOLEAN }

\* run_data["frameRange"], as characters
FrameRanges == { <<"9", "-", "1", "0">>, <<"7">> }
\* the one the sessions are explored with
SessionFrameRanges == { <<"7">> }

VARIABLES
    init_data,          \* Adaptor.init_data
    env,                \* os.environ, the two variables of interest
    server,             \* self._server: None or "AdaptorServer"
    socket_path,        \* self._server.socket_path
    server_thread,      \* the thread of start_nuke_server
    nuke_client,        \* self._nuke_client: None or "LoggingSubprocess"
    wpc,                \* position of the client process
    wact,               \* the action the client is performing
    returncode,         \* self._nuke_client.returncode
    action_queue,       \* self._action_queue
    is_rendering,       \* self._is_rendering
    exc_info,           \* self._exc_info
    performing_cleanup, \* self._performing_cleanup
    curr_output,        \* self._curr_output
    total_outputs,      \* self._total_outputs
    status,             \* the last update_status call
    pipe,               \* client output not yet read
    pc,                 \* position of the control thread
    ret,                \* the lifecycle call in progress or last ended
    runs,               \* on_run calls made
    enq,                \* actions enqueued so far (tags the next one)
    last_delivered,     \* name and tag of the last action but close handed to the client
    died_waiting,       \* the client exited while on_run was waiting
    terminate_calls,    \* grace time of each self._nuke_client.terminate() call
    render,             \* the client's locals inside start_render
    logged,             \* the messages the adaptor has logged
    first_exc,          \* the first exception a callback captured
    wait_exc,           \* the last exception captured while this on_run was waiting
    pushed,             \* the update_status calls made during this on_run
    shutdown_calls,     \* self._server.shutdown() calls made
    rules,              \* the path mapping rules of the session
    map_call,           \* the last NukeClient.map_path call and what it returned
    stderr_pipe,        \* client output on stderr its own reader has not yet read
    reading             \* each reader thread inside _handle_output_complete

vars == << init_data, env, server, socket_path, server_thread, nuke_client, wpc,
           wact, returncode, action_queue, is_rendering, exc_info,
           performing_cleanup, curr_output, total_outputs, status, pipe, pc, ret,
           runs, enq, last_delivered, died_waiting, terminate_calls, render,
           logged, first_exc, wait_exc, pushed, shutdown_calls, rules, map_call,
           stderr_pipe, reading >>

(* ------------------- text, as sequences of characters ------------------ *)
\* "NukeClient: Finished Rendering Frame "
LitFinishedFrame ==
    <<"N", "u", "k", "e", "C", "l", "i", "e", "n", "t", ":", " ", "F", "i", "n", "i",
      "s", "h", "e", "d", " ", "R", "e", "n", "d", "e", "r", "i", "n", "g", " ", "F",
      "r", "a", "m", "e", " ">>

\* "NukeClient: Finished Rendering Frames "
LitFinishedFrames ==
    <<"N", "u", "k", "e", "C", "l", "i", "e", "n", "t", ":", " ", "F", "i", "n", "i",
      "s", "h", "e", "d", " ", "R", "e", "n", "d", "e", "r", "i", "n", "g", " ", "F",
      "r", "a", "m", "e", "s", " ">>

\* "NukeClient: Creating outputs "
LitCreating ==
    <<"N", "u", "k", "e", "C", "l", "i", "e", "n", "t", ":", " ", "C", "r", "e", "a",
      "t", "i", "n", "g", " ", "o", "u", "t", "p", "u", "t", "s", " ">>

\* " of "
LitOf ==
    <<" ", "o", "f", " ">>

\* " total outputs"
LitTotal ==
    <<" ", "t", "o", "t", "a", "l", " ", "o", "u", "t", "p", "u", "t", "s">>

\* "Writing "
LitWriting ==
    <<"W", "r", "i", "t", "i", "n", "g", " ">>

\* " took "
LitTook ==
    <<" ", "t", "o", "o", "k", " ">>

\* " seconds"
LitSeconds ==
    <<" ", "s", "e", "c", "o", "n", "d", "s">>

\* "ERROR:"
LitERROR ==
    <<"E", "R", "R", "O", "R", ":">>

\* "Error:"
LitError ==
    <<"E", "r", "r", "o", "r", ":">>

\* "Error :"
LitErrorSp ==
    <<"E", "r", "r", "o", "r", " ", ":">>

\* "Eddy[ERROR]" (the regex escapes the brackets)
LitEddy ==
    <<"E", "d", "d", "y", "[", "E", "R", "R", "O", "R", "]">>

\* "ERROR: x"
LineERROR ==
    <<"E", "R", "R", "O", "R", ":", " ", "x">>

\* "a Error: b"
LineError ==
    <<"a", " ", "E", "r", "r", "o", "r", ":", " ", "b">>

\* "Error : c"
LineErrorSp ==
    <<"E", "r", "r", "o", "r", " ", ":", " ", "c">>

\* "Eddy[ERROR] - d"
LineEddy ==
    <<"E", "d", "d", "y", "[", "E", "R", "R", "O", "R", "]", " ", "-", " ", "d">>

\* "error: e"
LineLower ==
    <<"e", "r", "r", "o", "r", ":", " ", "e">>

\* "ERROR f"
LineNoColon ==
    <<"E", "R", "R", "O", "R", " ", "f">>

\* "Writing f took 0.1 seconds", printed by Nuke for each file it writes
LineWriting ==
    LitWriting \o <<"f">> \o LitTook \o <<"0", ".", "1">> \o LitSeconds

\* lines Nuke itself may print while the client runs
NukeLines == {LineERROR, LineError, LineErrorSp, LineEddy, LineLower, LineNoColon}
\* the ones the sessions are explored with
SessionLines == {LineERROR}

Digits == {"0", "1", "2", "3", "4", "5", "6", "7", "8", "9"}

DigitValue(c) ==
    CASE c = "0" -> 0 [] c = "1" -> 1 [] c = "2" -> 2 [] c = "3" -> 3 [] c = "4" -> 4
      [] c = "5" -> 5 [] c = "6" -> 6 [] c = "7" -> 7 [] c = "8" -> 8 [] c = "9" -> 9

DigitChar(d) == <<"0", "1", "2", "3", "4", "5", "6", "7", "8", "9">>[d + 1]

RECURSIVE ParseInt(_)
\* int(s) for a string of decimal digits
ParseInt(s) ==
    IF s = <<>> THEN 0
    ELSE 10 * ParseInt(SubSeq(s, 1, Len(s) - 1)) + DigitValue(s[Len(s)])

RECURSIVE IntToChars(_)
\* str(n) for n >= 0
IntToChars(n) ==
    IF n < 10 THEN <<DigitChar(n)>>
    ELSE IntToChars(n \div 10) \o <<DigitChar(n % 10)>>

\* the literal lit stands in l at position i
HasAt(l, i, lit) ==
    /\ i >= 1
    /\ i + Len(lit) - 1 <= Len(l)
    /\ \A k \in 1..Len(lit) : l[i + k - 1] = lit[k]

RECURSIVE RunEnd(_, _, _)
\* the position after the longest run of characters of class C that starts at i
RunEnd(l, i, C) ==
    IF i <= Len(l) /\ l[i] \in C THEN RunEnd(l, i + 1, C) ELSE i

\* regex.search(l) for ".*<lit>.*": the line holds the literal
Contains(l, lit) == \E i \in 1..Len(l) : HasAt(l, i, lit)

\* completed_regexes: "NukeClient: Finished Rendering Frame [0-9]+" and
\* "NukeClient: Finished Rendering Frames [0-9]+-[0-9]+"
MatchesCompleted(l) ==
    \/ \E i \in 1..Len(l) :
          /\ HasAt(l, i, LitFinishedFrame)
          /\ RunEnd(l, i + Len(LitFinishedFrame), Digits) > i + Len(LitFinishedFrame)
    \/ \E i \in 1..Len(l) :
          /\ HasAt(l, i, LitFinishedFrames)
          /\ LET a == i + Len(LitFinishedFrames)
                 b == RunEnd(l, a, Digits)
             IN  b > a /\ HasAt(l, b, <<"-">>) /\ RunEnd(l, b + 1, Digits) > b + 1

\* progress_regexes:
\* "NukeClient: Creating outputs ([0-9]+)-([0-9]+) of ([0-9]+) total outputs."
\* matched at position i; the three groups, or <<>> when there is no match
ProgressGroupsAt(l, i) ==
    LET a  == i + Len(LitCreating)
        b  == RunEnd(l, a, Digits)
        c  == RunEnd(l, b + 1, Digits)
        d  == c + Len(LitOf)
        e  == RunEnd(l, d, Digits)
        f  == e + Len(LitTotal)
    IN  IF /\ HasAt(l, i, LitCreating)
           /\ b > a /\ HasAt(l, b, <<"-">>)
           /\ c > b + 1 /\ HasAt(l, c, LitOf)
           /\ e > d /\ HasAt(l, e, LitTotal)
           /\ f <= Len(l)
        THEN << SubSeq(l, a, b - 1), SubSeq(l, b + 1, c - 1), SubSeq(l, d, e - 1) >>
        ELSE <<>>

ProgressGroups(l) ==
    LET hits == { i \in 1..Len(l) : ProgressGroupsAt(l, i) # <<>> }
    IN  IF hits = {} THEN <<>>
        ELSE ProgressGroupsAt(l, CHOOSE i \in hits : \A j \in hits : i <= j)

\* output_complete_regexes: "Writing .+ took [0-9\.]+ seconds"
MatchesOutputComplete(l) ==
    \E i \in 1..Len(l) :
        /\ HasAt(l, i, LitWriting)
        /\ \E k \in (i + Len(LitWriting) + 1)..Len(l) :
              /\ HasAt(l, k, LitTook)
              /\ LET a == k + Len(LitTook)
                     b == RunEnd(l, a, Digits \cup {"."})
                 IN  b > a /\ HasAt(l, b, LitSeconds)

\* error_regexes: ".*ERROR:.*", ".*Error:.*", ".*Error :.*", ".*Eddy\[ERROR\].*"
ErrorMarkers == <<LitERROR, LitError, LitErrorSp, LitEddy>>

MatchesError(l) == \E m \in DOMAIN ErrorMarkers : Contains(l, ErrorMarkers[m])

\* match.group(0) of the error regexes: ".*" on both sides takes the whole line
ErrorGroup0(l) == l

\* the line is a contiguous part of the message
ContainsVerbatim(msg, l) == \E i \in 1..Len(msg) : HasAt(msg, i, l)

(* ------------------------------ helpers -------------------------------- *)
NoExc == [type |-> None, msg |-> <<>>, exit_code |-> NoExitCode]

\* the client outside start_render; inside: the outputs of each write node,
\* the index of the node the loop is at, the running total, whether
\* nuke.execute is running and the files it has written; orders: the
\* render_order of each node of the sorted list; executed: the render_order of
\* the nodes nuke.execute was called for, in the order of the calls; raised:
\* the number of those calls that raised
NoRender ==
    [output_counts |-> <<>>, node |-> 0, running_total |-> 0, executing |-> FALSE,
     written |-> 0, orders |-> <<>>, executed |-> <<>>, raised |-> 0]

\* map_path has not been called
NoCall == [path |-> <<>>, result |-> <<>>, kept |-> FALSE]

\* the reader threads of the client's stdout and stderr
Readers == {"stdout", "stderr"}

\* neither reader is inside _handle_output_complete; inside, a reader holds
\* the value of self._curr_output it has loaded, as a sequence of one number
NoReads == [t \in Readers |-> <<>>]

\* no update_status call yet: the calls with progress 100 and the calls with
\* the message RENDER COMPLETE are counted
NoPushes == [any |-> FALSE, hundreds |-> 0, completes |-> 0]
Exc(t, m, c) == [type |-> t, msg |-> m, exit_code |-> c]

\* Action(name, data); tag numbers the actions in the order they were enqueued
Action(name, data, tag) == [name |-> name, data |-> data, tag |-> tag]
NoAction == Action(None, None, 0)

\* ActionsQueue.enqueue_action(a, front)
enqueue_action(q, a, front) == IF front THEN <<a>> \o q ELSE Append(q, a)

\* NukeAdaptor._nuke_is_running
nuke_is_running == nuke_client # None /\ wpc \notin {"none", "exited"}

\* NukeAdaptor._has_exception raises iff this holds (it returns False otherwise)
has_exception_raises == exc_info # NoExc /\ ~performing_cleanup

\* NukeAdaptor.continue_on_error
continue_on_error ==
    IF "continue_on_error" \in DOMAIN init_data
    THEN init_data["continue_on_error"] ELSE TRUE

\* every order in which the keys of a set can be iterated
Orders(S) ==
    { o \in [1..Cardinality(S) -> S] : \A i, j \in DOMAIN o : i # j => o[i] # o[j] }

RECURSIVE EnqueueAll(_, _, _)
\* enqueue Action(name, {name: init_data[name]}) for each name of the sequence
EnqueueAll(q, names, n) ==
    IF names = <<>> THEN q
    ELSE EnqueueAll(enqueue_action(q, Action(Head(names), init_data[Head(names)], n + 1),
                                   FALSE),
                    Tail(names), n + 1)

\* variant of the code: the optional keys are enqueued before _FIRST_NUKE_ACTIONS
PopulateNames_keys_first(order) ==
    SelectSeq(order, LAMBDA k : k \in DOMAIN init_data) \o FIRST_NUKE_ACTIONS

\* the names _populate_action_queue enqueues, for one iteration order of the
\* set _NUKE_INIT_KEYS
PopulateNames(order) ==
    FIRST_NUKE_ACTIONS \o SelectSeq(order, LAMBDA k : k \in DOMAIN init_data)

\* NukeAdaptor._populate_action_queue
populate_action_queue(q, order, n) == EnqueueAll(q, PopulateNames(order), n)

(* ------------------------------- Init ---------------------------------- *)
\* the init_data of the sessions the supervision is explored with
SessionInitData ==
    { InitDataOf({}, TRUE),
      InitDataOf({"continue_on_error", "write_nodes"}, FALSE),
      InitDataOf({"continue_on_error", "views"}, TRUE) }

\* _get_all_nodes_total_outputs of the scripts the sessions are explored
\* with: one write node with one view
SessionOutputCounts == { <<1>> }

\* two of the orders in which the set _NUKE_INIT_KEYS may be iterated
SessionOrders ==
    { <<"continue_on_error", "proxy", "write_nodes", "views">>,
      <<"views", "write_nodes", "proxy", "continue_on_error">> }

\* the adaptor as constructed, for init_data of the given set
Constructed(inits) ==
    /\ init_data \in inits
    \* os.environ is inherited: the variable the client reads may have been
    \* set by whoever launched the adaptor
    /\ env \in { [v \in {ADAPTOR_ENV_VAR, CLIENT_ENV_VAR} |->
                    IF v = CLIENT_ENV_VAR THEN x ELSE Unset]
                 : x \in {Unset, SocketPath, StalePath} }
    /\ server = None
    /\ socket_path = None
    /\ server_thread = "none"
    /\ nuke_client = None
    /\ wpc = "none"
    /\ wact = NoAction
    /\ returncode = NoExitCode
    /\ action_queue = <<>>
    /\ is_rendering = FALSE
    /\ exc_info = NoExc
    /\ performing_cleanup = FALSE
    /\ curr_output = 1
    /\ total_outputs = 1
    /\ status = [progress |-> -1, message |-> None]
    /\ pipe = <<>>
    /\ pc = "new"
    /\ ret = [call |-> None, status |-> None, exc |-> NoExc]
    /\ runs = 0
    /\ enq = 0
    /\ last_delivered = [name |-> None, tag |-> 0]
    /\ died_waiting = FALSE
    /\ terminate_calls = <<>>
    /\ render = NoRender
    /\ logged = {}
    /\ first_exc = NoExc
    /\ wait_exc = NoExc
    /\ pushed = NoPushes
    /\ shutdown_calls = 0
    /\ rules = <<>>
    /\ map_call = NoCall
    /\ stderr_pipe = <<>>
    /\ reading = NoReads

Init == Constructed(SessionInitData)

Returns(call) == [call |-> call, status |-> "returned", exc |-> NoExc]
Raises(call, e) == [call |-> call, status |-> "raised", exc |-> e]
Running(call) == [call |-> call, status |-> "running", exc |-> NoExc]

(* ------------------------ adaptor server thread ------------------------ *)
\* start_nuke_server: self._server = AdaptorServer(self._action_queue, self)
ServerCreate ==
    /\ server_thread = "started"
    /\ server' = "AdaptorServer"
    /\ server_thread' = "created"
    /\ UNCHANGED << init_data, rules, map_call, stderr_pipe, reading, render, logged, first_exc, wait_exc, pushed, shutdown_calls, env, socket_path, nuke_client, wpc, wact, returncode,
                    action_queue, is_rendering, exc_info, performing_cleanup,
                    curr_output, total_outputs, status, pipe, pc, ret, runs, enq,
                    last_delivered, died_waiting, terminate_calls >>

\* the server reports the socket it is bound to and serves forever
ServerServe ==
    /\ server_thread = "created"
    /\ socket_path' = SocketPath
    /\ server_thread' = "serving"
    /\ UNCHANGED << init_data, rules, map_call, stderr_pipe, reading, render, logged, first_exc, wait_exc, pushed, shutdown_calls, env, server, nuke_client, wpc, wact, returncode,
                    action_queue, is_rendering, exc_info, performing_cleanup,
                    curr_output, total_outputs, status, pipe, pc, ret, runs, enq,
                    last_delivered, died_waiting, terminate_calls >>

\* the thread ends with an exception before the server is ready
ServerFail ==
    /\ server_thread \in {"started", "created"}
    /\ server_thread' = "failed"
    /\ UNCHANGED << init_data, rules, map_call, stderr_pipe, reading, render, logged, first_exc, wait_exc, pushed, shutdown_calls, env, server, socket_path, nuke_client, wpc, wact,
                    returncode, action_queue, is_rendering, exc_info,
                    performing_cleanup, curr_output, total_outputs, status, pipe, pc,
                    ret, runs, enq, last_delivered, died_waiting, terminate_calls >>

(* ------------------------------ on_start ------------------------------- *)
\* on_start up to threading.Thread(target=start_nuke_server).start()
OnStart ==
    /\ pc = "new"
    /\ status' = [progress |-> 0, message |-> "Initializing Nuke"]
    /\ server_thread' = "started"
    /\ pc' = "start_socket"
    /\ ret' = Running("on_start")
    /\ UNCHANGED << init_data, rules, map_call, stderr_pipe, reading, render, logged, first_exc, wait_exc, pushed, shutdown_calls, env, server, socket_path, nuke_client, wpc, wact,
                    returncode, action_queue, is_rendering, exc_info,
                    performing_cleanup, curr_output, total_outputs, pipe, runs, enq,
                    last_delivered, died_waiting, terminate_calls >>

\* what server_socket_path reads
socket_available == server # None /\ socket_path # None

\* server_socket_path: one turn of the busy wait; the timer may have run out
\* at any turn.  On success _start_nuke_server_thread sets the environment.
StartSocketPoll ==
    /\ pc = "start_socket"
    /\ \/ /\ socket_available
          /\ env' = [env EXCEPT ![ADAPTOR_ENV_VAR] = socket_path]
          /\ pc' = "start_populate"
       \/ /\ ~socket_available
          /\ env' = env
          /\ pc' \in {"start_socket", "start_socket_timeout"}
    /\ UNCHANGED << init_data, rules, map_call, stderr_pipe, reading, render, logged, first_exc, wait_exc, pushed, shutdown_calls, server, socket_path, server_thread, nuke_client, wpc,
                    wact, returncode, action_queue, is_rendering, exc_info,
                    performing_cleanup, curr_output, total_outputs, status, pipe, ret,
                    runs, enq, last_delivered, died_waiting, terminate_calls >>

\* variant of the code: after the timeout server_socket_path returns what it has
StartSocketTimeout_proceeds ==
    /\ pc = "start_socket_timeout"
    /\ env' = [env EXCEPT ![ADAPTOR_ENV_VAR] = socket_path]
    /\ pc' = "start_populate"
    /\ UNCHANGED << init_data, rules, map_call, stderr_pipe, reading, render, logged, first_exc, wait_exc, pushed, shutdown_calls, server, socket_path, server_thread, nuke_client, wpc,
                    wact, returncode, action_queue, is_rendering, exc_info,
                    performing_cleanup, curr_output, total_outputs, status, pipe, ret,
                    runs, enq, last_delivered, died_waiting, terminate_calls >>

\* server_socket_path after the loop ended by the timeout: a last look, then
\* RuntimeError
StartSocketTimeout ==
    /\ pc = "start_socket_timeout"
    /\ IF socket_available
       THEN /\ env' = [env EXCEPT ![ADAPTOR_ENV_VAR] = socket_path]
            /\ pc' = "start_populate"
            /\ ret' = ret
       ELSE /\ env' = env
            /\ pc' = "idle"
            /\ ret' = Raises("on_start",
                             Exc("RuntimeError", <<"Could not find a socket">>, NoExitCode))
    /\ UNCHANGED << init_data, rules, map_call, stderr_pipe, reading, render, logged, first_exc, wait_exc, pushed, shutdown_calls, server, socket_path, server_thread, nuke_client, wpc,
                    wact, returncode, action_queue, is_rendering, exc_info,
                    performing_cleanup, curr_output, total_outputs, status, pipe,
                    runs, enq, last_delivered, died_waiting, terminate_calls >>

\* on_start: self._populate_action_queue(), for one iteration order of the set
PopulateIn(orders) ==
    /\ pc = "start_populate"
    /\ \E order \in orders :
          /\ action_queue' = populate_action_queue(action_queue, order, enq)
          /\ enq' = enq + Len(PopulateNames(order))
    /\ pc' = "start_client"
    /\ UNCHANGED << init_data, rules, map_call, stderr_pipe, reading, render, logged, first_exc, wait_exc, pushed, shutdown_calls, env, server, socket_path, server_thread, nuke_client,
                    wpc, wact, returncode, is_rendering, exc_info, performing_cleanup,
                    curr_output, total_outputs, status, pipe, ret, runs, last_delivered,
                    died_waiting, terminate_calls >>

StartPopulate == PopulateIn(SessionOrders)

\* on_start: self._start_nuke_client(); nuke_client_path may raise
\* FileNotFoundError before the process is made
StartClient ==
    /\ pc = "start_client"
    /\ \/ /\ nuke_client' = "LoggingSubprocess"
          /\ wpc' = "main"
          /\ pc' = "start_chk_running"
          /\ ret' = ret
       \/ /\ nuke_client' = nuke_client
          /\ wpc' = wpc
          /\ pc' = "idle"
          /\ ret' = Raises("on_start",
                           Exc("FileNotFoundError", <<"Could not find nuke_client.py">>,
                               NoExitCode))
    /\ UNCHANGED << init_data, rules, map_call, stderr_pipe, reading, render, logged, first_exc, wait_exc, pushed, shutdown_calls, env, server, socket_path, server_thread, wact,
                    returncode, action_queue, is_rendering, exc_info,
                    performing_cleanup, curr_output, total_outputs, status, pipe,
                    runs, enq, last_delivered, died_waiting, terminate_calls >>

\* on_start: the loop condition reads self._nuke_is_running
StartChkRunning ==
    /\ pc = "start_chk_running"
    /\ pc' = IF nuke_is_running THEN "start_chk_exc" ELSE "start_final"
    /\ UNCHANGED << init_data, rules, map_call, stderr_pipe, reading, render, logged, first_exc, wait_exc, pushed, shutdown_calls, env, server, socket_path, server_thread, nuke_client,
                    wpc, wact, returncode, action_queue, is_rendering, exc_info,
                    performing_cleanup, curr_output, total_outputs, status, pipe, ret,
                    runs, enq, last_delivered, died_waiting, terminate_calls >>

\* on_start: the loop condition reads self._has_exception, which raises
StartChkExc ==
    /\ pc = "start_chk_exc"
    /\ IF has_exception_raises
       THEN pc' = "idle" /\ ret' = Raises("on_start", exc_info)
       ELSE pc' = "start_chk_len" /\ ret' = ret
    /\ UNCHANGED << init_data, rules, map_call, stderr_pipe, reading, render, logged, first_exc, wait_exc, pushed, shutdown_calls, env, server, socket_path, server_thread, nuke_client,
                    wpc, wact, returncode, action_queue, is_rendering, exc_info,
                    performing_cleanup, curr_output, total_outputs, status, pipe,
                    runs, enq, last_delivered, died_waiting, terminate_calls >>

\* on_start: the loop condition reads len(self._action_queue) > 0
StartChkLen ==
    /\ pc = "start_chk_len"
    /\ pc' = IF Len(action_queue) > 0 THEN "start_chk_timer" ELSE "start_final"
    /\ UNCHANGED << init_data, rules, map_call, stderr_pipe, reading, render, logged, first_exc, wait_exc, pushed, shutdown_calls, env, server, socket_path, server_thread, nuke_client,
                    wpc, wact, returncode, action_queue, is_rendering, exc_info,
                    performing_cleanup, curr_output, total_outputs, status, pipe, ret,
                    runs, enq, last_delivered, died_waiting, terminate_calls >>

\* on_start: the loop body; is_timed_out() may answer True at any turn
StartChkTimer ==
    /\ pc = "start_chk_timer"
    /\ \/ /\ pc' = "idle"
          /\ ret' = Raises("on_start",
                           Exc("TimeoutError",
                               <<"Nuke did not complete initialization actions">>,
                               NoExitCode))
       \/ /\ pc' = "start_chk_running"
          /\ ret' = ret
    /\ UNCHANGED << init_data, rules, map_call, stderr_pipe, reading, render, logged, first_exc, wait_exc, pushed, shutdown_calls, env, server, socket_path, server_thread, nuke_client,
                    wpc, wact, returncode, action_queue, is_rendering, exc_info,
                    performing_cleanup, curr_output, total_outputs, status, pipe,
                    runs, enq, last_delivered, died_waiting, terminate_calls >>

\* variant of the code: on_start returns after the loop without looking at the queue
StartFinal_nocheck ==
    /\ pc = "start_final"
    /\ pc' = "idle"
    /\ ret' = Returns("on_start")
    /\ UNCHANGED << init_data, rules, map_call, stderr_pipe, reading, render, logged, first_exc, wait_exc, pushed, shutdown_calls, env, server, socket_path, server_thread, nuke_client,
                    wpc, wact, returncode, action_queue, is_rendering, exc_info,
                    performing_cleanup, curr_output, total_outputs, status, pipe,
                    runs, enq, last_delivered, died_waiting, terminate_calls >>

\* on_start after the loop: if len(self._action_queue) > 0: raise RuntimeError
StartFinal ==
    /\ pc = "start_final"
    /\ pc' = "idle"
    /\ ret' = IF Len(action_queue) > 0
              THEN Raises("on_start",
                          Exc("RuntimeError",
                              <<"Nuke encountered an error and was not able to complete initialization actions.">>,
                              NoExitCode))
              ELSE Returns("on_start")
    /\ UNCHANGED << init_data, rules, map_call, stderr_pipe, reading, render, logged, first_exc, wait_exc, pushed, shutdown_calls, env, server, socket_path, server_thread, nuke_client,
                    wpc, wact, returncode, action_queue, is_rendering, exc_info,
                    performing_cleanup, curr_output, total_outputs, status, pipe,
                    runs, enq, last_delivered, died_waiting, terminate_calls >>

(* ------------------------------- on_run -------------------------------- *)
\* variant of the code: the is-rendering flag is set before the client is looked at
OnRun_flag_first ==
    /\ pc = "idle"
    /\ runs < MaxRuns
    /\ runs' = runs + 1
    /\ died_waiting' = FALSE
    /\ is_rendering' = TRUE
    /\ IF ~nuke_is_running
       THEN /\ pc' = "idle"
            /\ ret' = Raises("on_run",
                             Exc("NukeNotRunningError",
                                 <<"Cannot render because Nuke is not running.">>,
                                 NoExitCode))
       ELSE /\ pc' = "run_set_flag"
            /\ ret' = Running("on_run")
    /\ wait_exc' = NoExc
    /\ pushed' = NoPushes
    /\ UNCHANGED << init_data, rules, map_call, stderr_pipe, reading, render, logged, first_exc, shutdown_calls, env, server, socket_path, server_thread, nuke_client,
                    wpc, wact, returncode, action_queue, exc_info,
                    performing_cleanup, curr_output, total_outputs, status, pipe,
                    enq, last_delivered, terminate_calls >>

\* on_run: if not self._nuke_is_running: raise NukeNotRunningError; then
\* run_data is validated (only run_data that passes is given)
OnRun ==
    /\ pc = "idle"
    /\ runs < MaxRuns
    /\ runs' = runs + 1
    /\ died_waiting' = FALSE
    /\ IF ~nuke_is_running
       THEN /\ pc' = "idle"
            /\ ret' = Raises("on_run",
                             Exc("NukeNotRunningError",
                                 <<"Cannot render because Nuke is not running.">>,
                                 NoExitCode))
       ELSE /\ pc' = "run_set_flag"
            /\ ret' = Running("on_run")
    /\ wait_exc' = NoExc
    /\ pushed' = NoPushes
    /\ UNCHANGED << init_data, rules, map_call, stderr_pipe, reading, render, logged, first_exc, shutdown_calls, env, server, socket_path, server_thread, nuke_client,
                    wpc, wact, returncode, action_queue, is_rendering, exc_info,
                    performing_cleanup, curr_output, total_outputs, status, pipe,
                    enq, last_delivered, terminate_calls >>

\* on_run: self._is_rendering = True
RunSetFlag ==
    /\ pc = "run_set_flag"
    /\ is_rendering' = TRUE
    /\ pc' = "run_enqueue"
    /\ UNCHANGED << init_data, rules, map_call, stderr_pipe, reading, render, logged, first_exc, wait_exc, pushed, shutdown_calls, env, server, socket_path, server_thread, nuke_client,
                    wpc, wact, returncode, action_queue, exc_info,
                    performing_cleanup, curr_output, total_outputs, status, pipe, ret,
                    runs, enq, last_delivered, died_waiting, terminate_calls >>

\* variant of the code: start_render is enqueued with front=True
RunEnqueue_front ==
    /\ pc = "run_enqueue"
    /\ \E fr \in SessionFrameRanges :
          action_queue' = enqueue_action(action_queue,
                                         Action("start_render", fr, enq + 1), TRUE)
    /\ enq' = enq + 1
    /\ pc' = "run_chk_running"
    /\ UNCHANGED << init_data, rules, map_call, stderr_pipe, reading, render, logged, first_exc, wait_exc, pushed, shutdown_calls, env, server, socket_path, server_thread, nuke_client,
                    wpc, wact, returncode, is_rendering, exc_info,
                    performing_cleanup, curr_output, total_outputs, status, pipe, ret,
                    runs, last_delivered, died_waiting, terminate_calls >>

\* on_run: enqueue_action(Action("start_render", {"frameRange": ...}))
RunEnqueueIn(ranges) ==
    /\ pc = "run_enqueue"
    /\ \E fr \in ranges :
          action_queue' = enqueue_action(action_queue,
                                         Action("start_render", fr, enq + 1), FALSE)
    /\ enq' = enq + 1
    /\ pc' = "run_chk_running"
    /\ UNCHANGED << init_data, rules, map_call, stderr_pipe, reading, render, logged, first_exc, wait_exc, pushed, shutdown_calls, env, server, socket_path, server_thread, nuke_client,
                    wpc, wact, returncode, is_rendering, exc_info,
                    performing_cleanup, curr_output, total_outputs, status, pipe, ret,
                    runs, last_delivered, died_waiting, terminate_calls >>

RunEnqueue == RunEnqueueIn(SessionFrameRanges)

\* on_run: the loop condition reads self._nuke_is_running
RunChkRunning ==
    /\ pc = "run_chk_running"
    /\ pc' = IF nuke_is_running THEN "run_chk_rendering" ELSE "run_final"
    /\ UNCHANGED << init_data, rules, map_call, stderr_pipe, reading, render, logged, first_exc, wait_exc, pushed, shutdown_calls, env, server, socket_path, server_thread, nuke_client,
                    wpc, wact, returncode, action_queue, is_rendering, exc_info,
                    performing_cleanup, curr_output, total_outputs, status, pipe, ret,
                    runs, enq, last_delivered, died_waiting, terminate_calls >>

\* variant of the code: the loop does not look at the is-rendering flag
RunChkRendering_blind ==
    /\ pc = "run_chk_rendering"
    /\ pc' = "run_chk_exc"
    /\ UNCHANGED << init_data, rules, map_call, stderr_pipe, reading, render, logged, first_exc, wait_exc, pushed, shutdown_calls, env, server, socket_path, server_thread, nuke_client,
                    wpc, wact, returncode, action_queue, is_rendering, exc_info,
                    performing_cleanup, curr_output, total_outputs, status, pipe, ret,
                    runs, enq, last_delivered, died_waiting, terminate_calls >>

\* on_run: the loop condition reads self._is_rendering
RunChkRendering ==
    /\ pc = "run_chk_rendering"
    /\ pc' = IF is_rendering THEN "run_chk_exc" ELSE "run_final"
    /\ UNCHANGED << init_data, rules, map_call, stderr_pipe, reading, render, logged, first_exc, wait_exc, pushed, shutdown_calls, env, server, socket_path, server_thread, nuke_client,
                    wpc, wact, returncode, action_queue, is_rendering, exc_info,
                    performing_cleanup, curr_output, total_outputs, status, pipe, ret,
                    runs, enq, last_delivered, died_waiting, terminate_calls >>

\* on_run: the loop condition reads self._has_exception, which raises;
\* otherwise time.sleep(0.1) and the next turn
RunChkExc ==
    /\ pc = "run_chk_exc"
    /\ IF has_exception_raises
       THEN pc' = "idle" /\ ret' = Raises("on_run", exc_info)
       ELSE pc' = "run_chk_running" /\ ret' = ret
    /\ UNCHANGED << init_data, rules, map_call, stderr_pipe, reading, render, logged, first_exc, wait_exc, pushed, shutdown_calls, env, server, socket_path, server_thread, nuke_client,
                    wpc, wact, returncode, action_queue, is_rendering, exc_info,
                    performing_cleanup, curr_output, total_outputs, status, pipe,
                    runs, enq, last_delivered, died_waiting, terminate_calls >>

\* variant of the code: on_run returns after the loop without looking at the client
RunFinal_returns ==
    /\ pc = "run_final"
    /\ pc' = "idle"
    /\ ret' = Returns("on_run")
    /\ UNCHANGED << init_data, rules, map_call, stderr_pipe, reading, render, logged, first_exc, wait_exc, pushed, shutdown_calls, env, server, socket_path, server_thread, nuke_client,
                    wpc, wact, returncode, action_queue, is_rendering, exc_info,
                    performing_cleanup, curr_output, total_outputs, status, pipe,
                    runs, enq, last_delivered, died_waiting, terminate_calls >>

\* on_run after the loop: if not self._nuke_is_running and self._nuke_client:
\* raise RuntimeError(... Exit code {returncode})
RunFinal ==
    /\ pc = "run_final"
    /\ pc' = "idle"
    /\ ret' = IF ~nuke_is_running /\ nuke_client # None
              THEN Raises("on_run",
                          Exc("RuntimeError",
                              <<"Nuke exited early and did not render successfully, please check render logs. Exit code ">>,
                              returncode))
              ELSE Returns("on_run")
    /\ UNCHANGED << init_data, rules, map_call, stderr_pipe, reading, render, logged, first_exc, wait_exc, pushed, shutdown_calls, env, server, socket_path, server_thread, nuke_client,
                    wpc, wact, returncode, action_queue, is_rendering, exc_info,
                    performing_cleanup, curr_output, total_outputs, status, pipe,
                    runs, enq, last_delivered, died_waiting, terminate_calls >>

\* the positions of on_run between enqueuing start_render and leaving the loop
RunWaitPcs == {"run_chk_running", "run_chk_rendering", "run_chk_exc"}

(* ------------------------------ on_cleanup ----------------------------- *)
\* the messages of on_cleanup's _logger.error calls and of on_cancel's
\* _logger.info call when there is nothing to cancel
LogTerminating ==
    "Nuke did not complete cleanup actions and failed to gracefully shutdown. Terminating."
LogServerAlive == "Failed to shutdown the Nuke Adaptor server."
LogNothingToCancel == "Nothing to cancel because Nuke is not running"

\* on_cleanup: self._performing_cleanup = True
OnCleanup ==
    /\ pc = "idle"
    /\ performing_cleanup' = TRUE
    /\ pc' = "cl_enqueue"
    /\ ret' = Running("on_cleanup")
    /\ UNCHANGED << init_data, rules, map_call, stderr_pipe, reading, render, logged, first_exc, wait_exc, pushed, shutdown_calls, env, server, socket_path, server_thread, nuke_client,
                    wpc, wact, returncode, action_queue, is_rendering, exc_info,
                    curr_output, total_outputs, status, pipe, runs, enq, last_delivered,
                    died_waiting, terminate_calls >>

\* variant of the code: close is enqueued at the back
CleanupEnqueue_back ==
    /\ pc = "cl_enqueue"
    /\ action_queue' = enqueue_action(action_queue, Action("close", None, enq + 1), FALSE)
    /\ enq' = enq + 1
    /\ pc' = "cl_wait"
    /\ UNCHANGED << init_data, rules, map_call, stderr_pipe, reading, render, logged, first_exc, wait_exc, pushed, shutdown_calls, env, server, socket_path, server_thread, nuke_client,
                    wpc, wact, returncode, is_rendering, exc_info,
                    performing_cleanup, curr_output, total_outputs, status, pipe, ret,
                    runs, last_delivered, died_waiting, terminate_calls >>

\* on_cleanup: self._action_queue.enqueue_action(Action("close"), front=True)
CleanupEnqueue ==
    /\ pc = "cl_enqueue"
    /\ action_queue' = enqueue_action(action_queue, Action("close", None, enq + 1), TRUE)
    /\ enq' = enq + 1
    /\ pc' = "cl_wait"
    /\ UNCHANGED << init_data, rules, map_call, stderr_pipe, reading, render, logged, first_exc, wait_exc, pushed, shutdown_calls, env, server, socket_path, server_thread, nuke_client,
                    wpc, wact, returncode, is_rendering, exc_info,
                    performing_cleanup, curr_output, total_outputs, status, pipe, ret,
                    runs, last_delivered, died_waiting, terminate_calls >>

\* on_cleanup: while self._nuke_is_running and not is_timed_out(): sleep
CleanupWait ==
    /\ pc = "cl_wait"
    /\ \/ nuke_is_running /\ pc' = "cl_wait"
       \/ nuke_is_running /\ pc' = "cl_terminate"
       \/ ~nuke_is_running /\ pc' = "cl_terminate"
    /\ UNCHANGED << init_data, rules, map_call, stderr_pipe, reading, render, logged, first_exc, wait_exc, pushed, shutdown_calls, env, server, socket_path, server_thread, nuke_client,
                    wpc, wact, returncode, action_queue, is_rendering, exc_info,
                    performing_cleanup, curr_output, total_outputs, status, pipe, ret,
                    runs, enq, last_delivered, died_waiting, terminate_calls >>

\* variant of the code: on_cleanup does not terminate a client that still runs
CleanupTerminate_skips ==
    /\ pc = "cl_terminate"
    /\ pc' = "cl_shutdown"
    /\ UNCHANGED << init_data, rules, map_call, stderr_pipe, reading, render, first_exc, wait_exc, pushed, shutdown_calls, env, server, socket_path, server_thread, nuke_client,
                    wact, action_queue, is_rendering, exc_info,
                    performing_cleanup, curr_output, total_outputs, status, pipe, ret,
                    runs, enq, last_delivered, died_waiting,
                    logged, terminate_calls, wpc, returncode >>

\* variant of the code: terminate() is called whether or not the client runs
CleanupTerminate_always ==
    /\ pc = "cl_terminate"
    /\ IF nuke_client # None
       THEN /\ logged' = logged \cup {LogTerminating}
            /\ terminate_calls' = Append(terminate_calls, "default")
            /\ wpc' = "exited"
            /\ returncode' \in {0, KilledCode}
       ELSE UNCHANGED << logged, terminate_calls, wpc, returncode >>
    /\ pc' = "cl_shutdown"
    /\ UNCHANGED << init_data, rules, map_call, stderr_pipe, reading, render, first_exc, wait_exc, pushed, shutdown_calls, env, server, socket_path, server_thread, nuke_client,
                    wact, action_queue, is_rendering, exc_info,
                    performing_cleanup, curr_output, total_outputs, status, pipe, ret,
                    runs, enq, last_delivered, died_waiting >>

\* on_cleanup: if self._nuke_is_running and self._nuke_client: terminate()
CleanupTerminate ==
    /\ pc = "cl_terminate"
    /\ IF nuke_is_running /\ nuke_client # None
       THEN /\ logged' = logged \cup {LogTerminating}
            /\ terminate_calls' = Append(terminate_calls, "default")
            /\ wpc' = "exited"
            /\ returncode' \in {0, KilledCode}
       ELSE UNCHANGED << logged, terminate_calls, wpc, returncode >>
    /\ pc' = "cl_shutdown"
    /\ UNCHANGED << init_data, rules, map_call, stderr_pipe, reading, render, first_exc, wait_exc, pushed, shutdown_calls, env, server, socket_path, server_thread, nuke_client,
                    wact, action_queue, is_rendering, exc_info,
                    performing_cleanup, curr_output, total_outputs, status, pipe, ret,
                    runs, enq, last_delivered, died_waiting >>

\* on_cleanup: if self._server: self._server.shutdown(); the serving thread
\* has ended by the time the bounded join returns, or it has not
CleanupShutdown ==
    /\ pc = "cl_shutdown"
    /\ shutdown_calls' = IF server # None THEN shutdown_calls + 1 ELSE shutdown_calls
    /\ server_thread' \in IF server # None /\ server_thread = "serving"
                          THEN {"stopped", "serving"} ELSE {server_thread}
    /\ pc' = "cl_join"
    /\ UNCHANGED << init_data, rules, map_call, stderr_pipe, reading, render, logged, first_exc, wait_exc, pushed, env, server, socket_path, nuke_client,
                    wpc, wact, returncode, action_queue, is_rendering, exc_info,
                    performing_cleanup, curr_output, total_outputs, status, pipe, ret,
                    runs, enq, last_delivered, died_waiting, terminate_calls >>

\* threading.Thread.is_alive() of the server thread
server_thread_is_alive == server_thread \in {"started", "created", "serving"}

\* variant of the code: the pending exception is cleared when cleanup ends
CleanupEnd_clears ==
    /\ pc = "cl_join"
    /\ logged' = IF server_thread_is_alive
                 THEN logged \cup {LogServerAlive} ELSE logged
    /\ performing_cleanup' = FALSE
    /\ exc_info' = NoExc
    /\ pc' = "done"
    /\ ret' = Returns("on_cleanup")
    /\ UNCHANGED << init_data, rules, map_call, stderr_pipe, reading, render, first_exc, wait_exc, pushed, shutdown_calls, env, server, socket_path, server_thread, nuke_client,
                    wpc, wact, returncode, action_queue, is_rendering,
                    curr_output, total_outputs, status, pipe, runs, enq, last_delivered,
                    died_waiting, terminate_calls >>

\* variant of the code: a server thread that outlives the join is not reported
CleanupEnd_silent ==
    /\ pc = "cl_join"
    /\ logged' = logged
    /\ performing_cleanup' = FALSE
    /\ pc' = "done"
    /\ ret' = Returns("on_cleanup")
    /\ UNCHANGED << init_data, rules, map_call, stderr_pipe, reading, render, first_exc, wait_exc, pushed, shutdown_calls, env, server, socket_path, server_thread, nuke_client,
                    wpc, wact, returncode, action_queue, is_rendering, exc_info,
                    curr_output, total_outputs, status, pipe, runs, enq, last_delivered,
                    died_waiting, terminate_calls >>

\* on_cleanup: join the server thread with a timeout, log an error when it is
\* still alive; then self._performing_cleanup = False
CleanupEnd ==
    /\ pc = "cl_join"
    /\ logged' = IF server_thread_is_alive
                 THEN logged \cup {LogServerAlive} ELSE logged
    /\ performing_cleanup' = FALSE
    /\ pc' = "done"
    /\ ret' = Returns("on_cleanup")
    /\ UNCHANGED << init_data, rules, map_call, stderr_pipe, reading, render, first_exc, wait_exc, pushed, shutdown_calls, env, server, socket_path, server_thread, nuke_client,
                    wpc, wact, returncode, action_queue, is_rendering, exc_info,
                    curr_output, total_outputs, status, pipe, runs, enq, last_delivered,
                    died_waiting, terminate_calls >>

(* ------------------------------ on_cancel ------------------------------ *)
\* variant of the code: on_cancel terminates with the default grace time
OnCancel_graceful ==
    /\ pc \notin {"new", "done"}
    /\ IF nuke_client = None \/ ~nuke_is_running
       THEN /\ logged' = logged \cup {LogNothingToCancel}
            /\ UNCHANGED << terminate_calls, wpc, returncode, died_waiting >>
       ELSE /\ terminate_calls' = Append(terminate_calls, "default")
            /\ wpc' = "exited"
            /\ returncode' \in {0, KilledCode}
            /\ died_waiting' = (died_waiting \/ pc \in RunWaitPcs)
            /\ UNCHANGED logged
    /\ UNCHANGED << init_data, rules, map_call, stderr_pipe, reading, render, first_exc, wait_exc, pushed, shutdown_calls, env, server, socket_path, server_thread, nuke_client,
                    wact, action_queue, is_rendering, exc_info,
                    performing_cleanup, curr_output, total_outputs, status, pipe, pc,
                    ret, runs, enq, last_delivered >>

\* on_cancel, called by the runtime while the control thread may be inside
\* on_run: terminate(grace_time_s=0) iff the client exists and is running
OnCancel ==
    /\ pc \notin {"new", "done"}
    /\ IF nuke_client = None \/ ~nuke_is_running
       THEN /\ logged' = logged \cup {LogNothingToCancel}
            /\ UNCHANGED << terminate_calls, wpc, returncode, died_waiting >>
       ELSE /\ terminate_calls' = Append(terminate_calls, "0")
            /\ wpc' = "exited"
            /\ returncode' = KilledCode
            /\ died_waiting' = (died_waiting \/ pc \in RunWaitPcs)
            /\ UNCHANGED logged
    /\ UNCHANGED << init_data, rules, map_call, stderr_pipe, reading, render, first_exc, wait_exc, pushed, shutdown_calls, env, server, socket_path, server_thread, nuke_client,
                    wact, action_queue, is_rendering, exc_info,
                    performing_cleanup, curr_output, total_outputs, status, pipe, pc,
                    ret, runs, enq, last_delivered >>

(* --------------------------- the Nuke client --------------------------- *)
\* os.path.exists(server_path) in main(): the socket the server is bound to
PathExists(p) == p = socket_path /\ server_thread = "serving"

\* nuke_client.main(): read the environment variable, check the path, make
\* the client; each OSError ends the process
WorkerMain ==
    /\ wpc = "main"
    /\ LET server_path == env[CLIENT_ENV_VAR]
       IN  IF server_path = Unset \/ ~PathExists(server_path)
           THEN /\ wpc' = "exited"
                /\ returncode' = 1
           ELSE /\ wpc' = "poll"
                /\ returncode' = returncode
    /\ UNCHANGED << init_data, rules, map_call, stderr_pipe, reading, render, logged, first_exc, wait_exc, pushed, shutdown_calls, env, server, socket_path, server_thread, nuke_client,
                    wact, action_queue, is_rendering, exc_info,
                    performing_cleanup, curr_output, total_outputs, status, pipe, pc,
                    ret, runs, enq, last_delivered, died_waiting, terminate_calls >>

\* client.poll(): ask the server for the next action; the server answers with
\* ActionsQueue.dequeue_action()
WorkerPoll ==
    /\ wpc = "poll"
    /\ server_thread = "serving"
    /\ action_queue # <<>>
    /\ wact' = Head(action_queue)
    /\ action_queue' = Tail(action_queue)
    /\ last_delivered' = IF Head(action_queue).name = "close" THEN last_delivered
                          ELSE [name |-> Head(action_queue).name,
                                tag |-> Head(action_queue).tag]
    /\ wpc' = "exec"
    /\ UNCHANGED << init_data, rules, map_call, stderr_pipe, reading, render, logged, first_exc, wait_exc, pushed, shutdown_calls, env, server, socket_path, server_thread, nuke_client,
                    returncode, is_rendering, exc_info,
                    performing_cleanup, curr_output, total_outputs, status, pipe, pc,
                    ret, runs, enq, died_waiting, terminate_calls >>

RECURSIVE StripRight(_)
\* str.rstrip() for the blank
StripRight(s) ==
    IF s # <<>> /\ s[Len(s)] = " " THEN StripRight(SubSeq(s, 1, Len(s) - 1)) ELSE s

\* int(s) succeeds for a string that starts with a digit: blanks after the
\* number are ignored and single underscores may separate its digits
IsIntLiteral(s) ==
    LET t == StripRight(s)
    IN  /\ t # <<>>
        /\ t[1] \in Digits /\ t[Len(t)] \in Digits
        /\ \A i \in 1..Len(t) : t[i] \in Digits \cup {"_"}
        /\ \A i \in 1..(Len(t) - 1) : ~(t[i] = "_" /\ t[i + 1] = "_")

\* the value of int(s) for such a string
IntOf(s) == ParseInt(SelectSeq(s, LAMBDA c : c \in Digits))

\* NukeHandler.start_render, the frame range: re.match(r"(\d+)-(\d+)"), else
\* re.match(r"(\d+)") and int(frame_range)
FrameRangeParse(fr) ==
    LET b == RunEnd(fr, 1, Digits)
        c == RunEnd(fr, b + 1, Digits)
    IN  IF fr = <<>> THEN [ok |-> FALSE, start |-> 0, end |-> 0]
        ELSE IF b > 1 /\ HasAt(fr, b, <<"-">>) /\ c > b + 1
        THEN [ok |-> TRUE, start |-> ParseInt(SubSeq(fr, 1, b - 1)),
              end |-> ParseInt(SubSeq(fr, b + 1, c - 1))]
        ELSE IF b > 1 /\ IsIntLiteral(fr)
        THEN [ok |-> TRUE, start |-> IntOf(fr), end |-> IntOf(fr)]
        ELSE [ok |-> FALSE, start |-> 0, end |-> 0]

\* NukeHandler.start_render, the line printed before a node is run
ProgressLine(a, b, t) ==
    LitCreating \o IntToChars(a) \o <<"-">> \o IntToChars(b) \o LitOf \o IntToChars(t)
        \o LitTotal \o <<".">>

RECURSIVE SumSeq(_)
\* sum(output_counts)
SumSeq(q) == IF q = <<>> THEN 0 ELSE Head(q) + SumSeq(Tail(q))

\* NukeHandler.start_render, the line printed when every node has run
FinishedLine(start, end) ==
    IF end > start
    THEN LitFinishedFrames \o IntToChars(start) \o <<"-">> \o IntToChars(end)
    ELSE LitFinishedFrame \o IntToChars(start)

RECURSIVE SortByOrder(_)
\* self.write_nodes.sort(key=render_order): a stable sort, each node is put
\* behind the nodes before it whose render_order is not greater
SortByOrder(nodes) ==
    IF nodes = <<>> THEN <<>>
    ELSE LET rest == SortByOrder(SubSeq(nodes, 1, Len(nodes) - 1))
             x    == nodes[Len(nodes)]
             k    == Cardinality({ i \in DOMAIN rest : rest[i].order <= x.order })
         IN  SubSeq(rest, 1, k) \o <<x>> \o SubSeq(rest, k + 1, Len(rest))

\* write nodes already in render order, with the given numbers of views
NodesOf(oc) == [i \in DOMAIN oc |-> [order |-> i, views |-> oc[i]]]

\* the client performs the action it was given: close ends Nuke, start_render
\* parses the frame range (an exception ends the process), sorts the write
\* nodes of the script and renders, the others set up the session
ExecNodes(scripts) ==
    /\ wpc = "exec"
    /\ CASE wact.name = "close" ->
              /\ wpc' = "exited"
              /\ returncode' = 0
              /\ died_waiting' = (died_waiting \/ pc \in RunWaitPcs)
              /\ UNCHANGED render
         [] wact.name = "start_render" ->
              IF FrameRangeParse(wact.data).ok
              THEN /\ wpc' = "render"
                   /\ \E nodes \in { SortByOrder(ns) : ns \in scripts } :
                         render' = [output_counts |->
                                        [i \in DOMAIN nodes |-> nodes[i].views],
                                    node |-> 1,
                                    running_total |-> 0, executing |-> FALSE,
                                    written |-> 0,
                                    orders |-> [i \in DOMAIN nodes |-> nodes[i].order],
                                    executed |-> <<>>, raised |-> 0]
                   /\ UNCHANGED << returncode, died_waiting >>
              ELSE /\ wpc' = "exited"
                   /\ returncode' = 1
                   /\ died_waiting' = (died_waiting \/ pc \in RunWaitPcs)
                   /\ UNCHANGED render
         [] OTHER ->
              /\ wpc' = "poll"
              /\ UNCHANGED << returncode, died_waiting, render >>
    /\ UNCHANGED << init_data, rules, map_call, stderr_pipe, reading, logged, first_exc, wait_exc, pushed, shutdown_calls, env, server, socket_path, server_thread, nuke_client,
                    wact, action_queue, is_rendering, exc_info,
                    performing_cleanup, curr_output, total_outputs, status, pipe, pc,
                    ret, runs, enq, last_delivered, terminate_calls >>

\* the same for scripts given by the numbers of views of their nodes
ExecIn(scripts) == ExecNodes({ NodesOf(oc) : oc \in scripts })

WorkerExec == ExecIn(SessionOutputCounts)

\* start_render, the loop over the write nodes: print the progress line of
\* the node, then nuke.execute(node, start_frame, end_frame, 1)
WorkerNodeStart ==
    /\ wpc = "render"
    /\ ~render.executing
    /\ render.node <= Len(render.output_counts)
    /\ Len(pipe) < MaxPipe
    /\ pipe' = Append(pipe, ProgressLine(render.running_total,
                                         render.running_total
                                           + render.output_counts[render.node],
                                         SumSeq(render.output_counts)))
    /\ render' = [render EXCEPT !.executing = TRUE, !.written = 0,
                                !.executed = Append(@, render.orders[render.node])]
    /\ UNCHANGED << init_data, rules, map_call, stderr_pipe, reading, logged, first_exc, wait_exc, pushed, shutdown_calls, env, server, socket_path, server_thread, nuke_client,
                    wpc, wact, returncode, action_queue, is_rendering, exc_info,
                    performing_cleanup, curr_output, total_outputs, status, pc,
                    ret, runs, enq, last_delivered, died_waiting, terminate_calls >>

\* the files nuke.execute writes for one node: one for each frame and view
NodeFiles ==
    LET fr == FrameRangeParse(wact.data)
    IN  IF fr.end >= fr.start
        THEN (fr.end - fr.start + 1) * render.output_counts[render.node]
        ELSE 0

\* nuke.execute writes a file and Nuke prints its "Writing ... took ..." line
WorkerWrite ==
    /\ wpc = "render"
    /\ render.executing
    /\ render.written < NodeFiles
    /\ Len(pipe) < MaxPipe
    /\ pipe' = Append(pipe, LineWriting)
    /\ render' = [render EXCEPT !.written = @ + 1]
    /\ UNCHANGED << init_data, rules, map_call, stderr_pipe, reading, logged, first_exc, wait_exc, pushed, shutdown_calls, env, server, socket_path, server_thread, nuke_client,
                    wpc, wact, returncode, action_queue, is_rendering, exc_info,
                    performing_cleanup, curr_output, total_outputs, status, pc,
                    ret, runs, enq, last_delivered, died_waiting, terminate_calls >>

\* "NukeClient: Encountered the following Exception while running node
\* 'Write1': 'e'", abbreviated
LineException ==
    <<"N", "u", "k", "e", "C", "l", "i", "e", "n", "t", ":", " ", "E", "x", "c">>

\* variant of the code: the loop goes on after an exception whatever the
\* client was told
WorkerNodeRaise_continues ==
    /\ wpc = "render"
    /\ render.executing
    /\ Len(pipe) < MaxPipe
    /\ pipe' = Append(pipe, LineException)
    /\ render' = [render EXCEPT !.executing = FALSE,
                                !.running_total = @ + render.output_counts[render.node],
                                !.node = @ + 1,
                                !.written = 0,
                                !.raised = @ + 1]
    /\ UNCHANGED << init_data, rules, map_call, stderr_pipe, reading, logged, first_exc, wait_exc, pushed, shutdown_calls, env, server, socket_path, server_thread, nuke_client,
                    wpc, returncode, died_waiting,
                    wact, action_queue, is_rendering, exc_info,
                    performing_cleanup, curr_output, total_outputs, status, pc,
                    ret, runs, enq, last_delivered, terminate_calls >>

\* nuke.execute raises: the client prints the exception; when it is told to
\* continue on errors the loop goes on, otherwise start_render raises and the
\* process ends
WorkerNodeRaise ==
    /\ wpc = "render"
    /\ render.executing
    /\ Len(pipe) < MaxPipe
    /\ pipe' = Append(pipe, LineException)
    /\ IF continue_on_error
       THEN /\ render' = [render EXCEPT !.executing = FALSE,
                                        !.running_total =
                                            @ + render.output_counts[render.node],
                                        !.node = @ + 1,
                                        !.written = 0,
                                        !.raised = @ + 1]
            /\ UNCHANGED << wpc, returncode, died_waiting >>
       ELSE /\ wpc' = "exited"
            /\ returncode' = 1
            /\ died_waiting' = (died_waiting \/ pc \in RunWaitPcs)
            /\ render' = [render EXCEPT !.raised = @ + 1]
    /\ UNCHANGED << init_data, rules, map_call, stderr_pipe, reading, logged, first_exc, wait_exc, pushed, shutdown_calls, env, server, socket_path, server_thread, nuke_client,
                    wact, action_queue, is_rendering, exc_info,
                    performing_cleanup, curr_output, total_outputs, status, pc,
                    ret, runs, enq, last_delivered, terminate_calls >>

\* nuke.execute ends with every file written; running_total += output
WorkerNodeDone ==
    /\ wpc = "render"
    /\ render.executing
    /\ render.written = NodeFiles
    /\ render' = [render EXCEPT !.executing = FALSE,
                                !.running_total = @ + render.output_counts[render.node],
                                !.node = @ + 1,
                                !.written = 0]
    /\ UNCHANGED << init_data, rules, map_call, stderr_pipe, reading, logged, first_exc, wait_exc, pushed, shutdown_calls, env, server, socket_path, server_thread, nuke_client,
                    wpc, wact, returncode, action_queue, is_rendering, exc_info,
                    performing_cleanup, curr_output, total_outputs, status, pipe, pc,
                    ret, runs, enq, last_delivered, died_waiting, terminate_calls >>

\* start_render after the loop: print the "Finished Rendering" line and poll
\* again
WorkerRenderDone ==
    /\ wpc = "render"
    /\ ~render.executing
    /\ render.node > Len(render.output_counts)
    /\ Len(pipe) < MaxPipe
    /\ LET fr == FrameRangeParse(wact.data)
       IN  pipe' = Append(pipe, FinishedLine(fr.start, fr.end))
    /\ wpc' = "poll"
    /\ render' = NoRender
    /\ UNCHANGED << init_data, rules, map_call, stderr_pipe, reading, logged, first_exc, wait_exc, pushed, shutdown_calls, env, server, socket_path, server_thread, nuke_client,
                    wact, returncode, action_queue, is_rendering, exc_info,
                    performing_cleanup, curr_output, total_outputs, status, pc,
                    ret, runs, enq, last_delivered, died_waiting, terminate_calls >>

\* Nuke prints a line of its own
PrintIn(lines) ==
    /\ wpc \in {"poll", "exec", "render"}
    /\ Len(pipe) < MaxPipe
    /\ \E l \in lines : pipe' = Append(pipe, l)
    /\ UNCHANGED << init_data, rules, map_call, stderr_pipe, reading, render, logged, first_exc, wait_exc, pushed, shutdown_calls, env, server, socket_path, server_thread, nuke_client,
                    wpc, wact, returncode, action_queue, is_rendering, exc_info,
                    performing_cleanup, curr_output, total_outputs, status, pc,
                    ret, runs, enq, last_delivered, died_waiting, terminate_calls >>

WorkerPrint == PrintIn(SessionLines)

\* the process ends by itself: Nuke crashes, an action raises, or the server
\* is gone when the client asks for the next action
WorkerExit ==
    /\ wpc \in {"main", "poll", "exec", "render"}
    /\ wpc' = "exited"
    /\ returncode' \in ExitCodes
    /\ died_waiting' = (died_waiting \/ pc \in RunWaitPcs)
    /\ UNCHANGED << init_data, rules, map_call, stderr_pipe, reading, render, logged, first_exc, wait_exc, pushed, shutdown_calls, env, server, socket_path, server_thread, nuke_client,
                    wact, action_queue, is_rendering, exc_info,
                    performing_cleanup, curr_output, total_outputs, status, pipe, pc,
                    ret, runs, enq, last_delivered, terminate_calls >>

(* -------------------- the regex callbacks (RegexHandler) --------------- *)
\* NukeAdaptor.progress, in hundredths of a percent, for total > 0
progress(curr, total) ==
    LET r == (2 * 10000 * curr + total) \div (2 * total)
    IN  IF r > 10000 THEN 10000 ELSE IF r < 0 THEN 0 ELSE r

\* update_status(progress=..., status_message=...)
update_status(s, p, m) ==
    [s EXCEPT !.status = [progress |-> p, message |-> m],
              !.pushes = Append(@, [progress |-> p, message |-> m])]

\* the adaptor state the callbacks read and write; raised: a callback raised
\* and the rest of the line's callbacks are not run; error: what it raised
\* when not the pending exception; captured: _handle_error stored an
\* exception; pushes: the update_status calls made
CallbackState ==
    [is_rendering |-> is_rendering, status |-> status, curr_output |-> curr_output,
     total_outputs |-> total_outputs, exc_info |-> exc_info, raised |-> FALSE,
     error |-> None, captured |-> FALSE, pushes |-> <<>>]

\* variant of the code: the callbacks run whatever is pending
check_for_exception_never(s) == FALSE

\* variant of the code: the callbacks' check is not suppressed by the cleanup
check_for_exception_raises_in_cleanup(s) == s.exc_info # NoExc

\* _check_for_exception: self._has_exception raises before the callback runs
check_for_exception_raises(s) == s.exc_info # NoExc /\ ~performing_cleanup

\* variant of the code: the end of the render is not reported
handle_complete_quiet(s) ==
    IF check_for_exception_raises(s) THEN [s EXCEPT !.raised = TRUE]
    ELSE [s EXCEPT !.is_rendering = FALSE]

\* NukeAdaptor._handle_complete
handle_complete(s) ==
    IF check_for_exception_raises(s) THEN [s EXCEPT !.raised = TRUE]
    ELSE update_status([s EXCEPT !.is_rendering = FALSE], 10000, "RENDER COMPLETE")

\* variant of the code: the first group is taken for the total and the
\* third for the current output
handle_progress_swapped(s, groups) ==
    IF check_for_exception_raises(s) THEN [s EXCEPT !.raised = TRUE]
    ELSE LET c == ParseInt(groups[3])
             t == ParseInt(groups[1])
         IN  IF t = 0
             THEN [s EXCEPT !.curr_output = c, !.total_outputs = t, !.raised = TRUE,
                            !.error = "ZeroDivisionError"]
             ELSE update_status([s EXCEPT !.curr_output = c, !.total_outputs = t],
                                progress(c, t), None)

\* NukeAdaptor._handle_progress
handle_progress(s, groups) ==
    IF check_for_exception_raises(s) THEN [s EXCEPT !.raised = TRUE]
    ELSE LET c == ParseInt(groups[1])
             t == ParseInt(groups[3])
         IN  IF t = 0
             THEN [s EXCEPT !.curr_output = c, !.total_outputs = t, !.raised = TRUE,
                            !.error = "ZeroDivisionError"]
             ELSE update_status([s EXCEPT !.curr_output = c, !.total_outputs = t],
                                progress(c, t), None)

\* NukeAdaptor._handle_output_complete
handle_output_complete(s) ==
    IF check_for_exception_raises(s) THEN [s EXCEPT !.raised = TRUE]
    ELSE LET c == s.curr_output + 1
         IN  IF ~s.is_rendering THEN [s EXCEPT !.curr_output = c]
             ELSE IF s.total_outputs = 0
             THEN [s EXCEPT !.curr_output = c, !.raised = TRUE,
                            !.error = "ZeroDivisionError"]
             ELSE update_status([s EXCEPT !.curr_output = c],
                                progress(c, s.total_outputs), None)

\* variant of the code: the error is captured whatever continue_on_error says
handle_error_always(s, group0) ==
    [s EXCEPT !.exc_info =
        Exc("RuntimeError", <<"Nuke Encountered an Error: ">> \o group0, NoExitCode),
              !.captured = TRUE]

\* variant of the code: an exception already pending is kept
handle_error_once(s, group0) ==
    IF ~continue_on_error /\ s.exc_info = NoExc
    THEN [s EXCEPT !.exc_info =
            Exc("RuntimeError", <<"Nuke Encountered an Error: ">> \o group0, NoExitCode),
                   !.captured = TRUE]
    ELSE s

\* NukeAdaptor._handle_error
handle_error(s, group0) ==
    IF ~continue_on_error
    THEN [s EXCEPT !.exc_info =
            Exc("RuntimeError", <<"Nuke Encountered an Error: ">> \o group0, NoExitCode),
                   !.captured = TRUE]
    ELSE s

\* RegexHandler over regex_callbacks, in the order they are registered:
\* completed, progress, output complete, error; each set holds the one state
\* the callbacks before it leave
AfterCompleted(l) ==
    { IF MatchesCompleted(l) THEN handle_complete(s) ELSE s : s \in {CallbackState} }

AfterProgress(l) ==
    { IF ~s.raised /\ ProgressGroups(l) # <<>>
      THEN handle_progress(s, ProgressGroups(l)) ELSE s : s \in AfterCompleted(l) }

AfterOutputComplete(l) ==
    { IF ~s.raised /\ MatchesOutputComplete(l)
      THEN handle_output_complete(s) ELSE s : s \in AfterProgress(l) }

AfterError(l) ==
    { IF ~s.raised /\ MatchesError(l)
      THEN handle_error(s, ErrorGroup0(l)) ELSE s : s \in AfterOutputComplete(l) }

emit(l) == CHOOSE s \in AfterError(l) : TRUE

\* on_run is between its call and its end
InOnRun == ret.call = "on_run" /\ ret.status = "running"

\* the update_status calls of one line added to those of this on_run
Pushes(p, calls) ==
    [any       |-> p.any \/ calls # <<>>,
     hundreds  |-> p.hundreds
                   + Cardinality({ i \in DOMAIN calls : calls[i].progress = 10000 }),
     completes |-> p.completes
                   + Cardinality({ i \in DOMAIN calls :
                                      calls[i].message = "RENDER COMPLETE" })]

\* the reader of the client's output logs the next line
ReadLine ==
    /\ pipe # <<>>
    /\ \E s \in {emit(Head(pipe))} :
           /\ is_rendering' = s.is_rendering
           /\ status' = s.status
           /\ curr_output' = s.curr_output
           /\ total_outputs' = s.total_outputs
           /\ exc_info' = s.exc_info
           /\ first_exc' = IF s.captured /\ first_exc = NoExc
                           THEN s.exc_info ELSE first_exc
           /\ wait_exc' = IF s.captured /\ pc \in RunWaitPcs
                          THEN s.exc_info ELSE wait_exc
           /\ pushed' = IF InOnRun THEN Pushes(pushed, s.pushes) ELSE pushed
    /\ pipe' = Tail(pipe)
    /\ UNCHANGED << init_data, rules, map_call, stderr_pipe, reading, render, logged, shutdown_calls, env, server, socket_path, server_thread, nuke_client,
                    wpc, wact, returncode, action_queue, performing_cleanup, pc,
                    ret, runs, enq, last_delivered, died_waiting, terminate_calls >>

(* ------------------------------- Spec ---------------------------------- *)
Next ==
    \/ ServerCreate \/ ServerServe \/ ServerFail
    \/ OnStart \/ StartSocketPoll \/ StartSocketTimeout \/ StartPopulate
    \/ StartClient \/ StartChkRunning \/ StartChkExc \/ StartChkLen
    \/ StartChkTimer \/ StartFinal
    \/ OnRun \/ RunSetFlag \/ RunEnqueue \/ RunChkRunning \/ RunChkRendering
    \/ RunChkExc \/ RunFinal
    \/ OnCleanup \/ CleanupEnqueue \/ CleanupWait \/ CleanupTerminate
    \/ CleanupShutdown \/ CleanupEnd
    \/ OnCancel
    \/ WorkerMain \/ WorkerPoll \/ WorkerExec \/ WorkerNodeStart \/ WorkerWrite
    \/ WorkerNodeDone \/ WorkerNodeRaise \/ WorkerRenderDone \/ WorkerPrint
    \/ WorkerExit
    \/ ReadLine

Spec == Init /\ [][Next]_vars

(* ------------------- the population of the action queue ---------------- *)
\* on_start about to call _populate_action_queue, for every valid init_data:
\* the server thread serves and its socket path is in the environment
InitPopulate ==
    /\ init_data \in ValidInitData
    /\ env \in { [v \in {ADAPTOR_ENV_VAR, CLIENT_ENV_VAR} |->
                    IF v = CLIENT_ENV_VAR THEN x ELSE SocketPath]
                 : x \in {Unset, SocketPath, StalePath} }
    /\ server = "AdaptorServer"
    /\ socket_path = SocketPath
    /\ server_thread = "serving"
    /\ nuke_client = None
    /\ wpc = "none"
    /\ wact = NoAction
    /\ returncode = NoExitCode
    /\ action_queue = <<>>
    /\ is_rendering = FALSE
    /\ exc_info = NoExc
    /\ performing_cleanup = FALSE
    /\ curr_output = 1
    /\ total_outputs = 1
    /\ status = [progress |-> 0, message |-> "Initializing Nuke"]
    /\ pipe = <<>>
    /\ pc = "start_populate"
    /\ ret = Running("on_start")
    /\ runs = 0
    /\ enq = 0
    /\ last_delivered = [name |-> None, tag |-> 0]
    /\ died_waiting = FALSE
    /\ terminate_calls = <<>>
    /\ render = NoRender
    /\ logged = {}
    /\ first_exc = NoExc
    /\ wait_exc = NoExc
    /\ pushed = NoPushes
    /\ shutdown_calls = 0
    /\ rules = <<>>
    /\ map_call = NoCall
    /\ stderr_pipe = <<>>
    /\ reading = NoReads

\* _populate_action_queue under every iteration order of the set
PopulateAny == PopulateIn(Orders(NUKE_INIT_KEYS))

\* the population, the start of the client and its first request
NextPopulate == PopulateAny \/ StartClient \/ WorkerMain \/ WorkerPoll

SpecPopulate == InitPopulate /\ [][NextPopulate]_vars

(* ------------------------- the log pattern matcher --------------------- *)
\* a session after on_start returned, for every valid init_data: the client
\* polls an empty queue
InitLog ==
    /\ init_data \in ValidInitData
    /\ env = [v \in {ADAPTOR_ENV_VAR, CLIENT_ENV_VAR} |-> SocketPath]
    /\ server = "AdaptorServer"
    /\ socket_path = SocketPath
    /\ server_thread = "serving"
    /\ nuke_client = "LoggingSubprocess"
    /\ wpc = "poll"
    /\ wact = Action("script_file", init_data["script_file"], 1)
    /\ returncode = NoExitCode
    /\ action_queue = <<>>
    /\ is_rendering = FALSE
    /\ exc_info = NoExc
    /\ performing_cleanup = FALSE
    /\ curr_output = 1
    /\ total_outputs = 1
    /\ status = [progress |-> 0, message |-> "Initializing Nuke"]
    /\ pipe = <<>>
    /\ pc = "idle"
    /\ ret = Returns("on_start")
    /\ runs = 0
    /\ enq = Cardinality(DOMAIN init_data)
    /\ last_delivered \in { [name |-> k, tag |-> enq] : k \in DOMAIN init_data }
    /\ died_waiting = FALSE
    /\ terminate_calls = <<>>
    /\ render = NoRender
    /\ logged = {}
    /\ first_exc = NoExc
    /\ wait_exc = NoExc
    /\ pushed = NoPushes
    /\ shutdown_calls = 0
    /\ rules = <<>>
    /\ map_call = NoCall
    /\ stderr_pipe = <<>>
    /\ reading = NoReads

\* Nuke prints any of the lines
PrintAny == PrintIn(NukeLines)

NextLog == PrintAny \/ ReadLine

SpecLog == InitLog /\ [][NextLog]_vars

(* --------------------------- the progress counters --------------------- *)
\* the largest number written in a progress line
MaxOutputs == 2

\* lines that match the progress rule, for every small start, end and total,
\* and a line that matches the output complete rule
ProgressLines ==
    { ProgressLine(a, b, t) : a \in 0..MaxOutputs, b \in 0..MaxOutputs,
                              t \in 0..MaxOutputs }
        \cup {LineWriting}

\* a session after on_start returned, and the same session once on_run has
\* set the flag and enqueued start_render and waits
InitProgress ==
    /\ init_data \in SessionInitData
    /\ env = [v \in {ADAPTOR_ENV_VAR, CLIENT_ENV_VAR} |-> SocketPath]
    /\ server = "AdaptorServer"
    /\ socket_path = SocketPath
    /\ server_thread = "serving"
    /\ nuke_client = "LoggingSubprocess"
    /\ wpc = "poll"
    /\ wact = Action("script_file", init_data["script_file"], 1)
    /\ returncode = NoExitCode
    /\ is_rendering \in BOOLEAN
    /\ last_delivered \in { [name |-> k, tag |-> Cardinality(DOMAIN init_data)] :
                               k \in DOMAIN init_data }
    /\ IF is_rendering
       THEN /\ enq = Cardinality(DOMAIN init_data) + 1
            /\ \E fr \in SessionFrameRanges :
                  action_queue = <<Action("start_render", fr, enq)>>
            /\ pc = "run_chk_running"
            /\ ret = Running("on_run")
            /\ runs = 1
       ELSE /\ enq = Cardinality(DOMAIN init_data)
            /\ action_queue = <<>>
            /\ pc = "idle"
            /\ ret = Returns("on_start")
            /\ runs = 0
    /\ exc_info = NoExc
    /\ performing_cleanup = FALSE
    /\ curr_output = 1
    /\ total_outputs = 1
    /\ status = [progress |-> 0, message |-> "Initializing Nuke"]
    /\ pipe = <<>>
    /\ died_waiting = FALSE
    /\ terminate_calls = <<>>
    /\ render = NoRender
    /\ logged = {}
    /\ first_exc = NoExc
    /\ wait_exc = NoExc
    /\ pushed = NoPushes
    /\ shutdown_calls = 0
    /\ rules = <<>>
    /\ map_call = NoCall
    /\ stderr_pipe = <<>>
    /\ reading = NoReads

\* the client's output carries one of the lines; the counter and the number
\* of reports of 100 are bounded
PrintProgress ==
    /\ curr_output <= MaxOutputs
    /\ pushed.hundreds <= MaxOutputs
    /\ PrintIn(ProgressLines)

NextProgress == PrintProgress \/ ReadLine

SpecProgress == InitProgress /\ [][NextProgress]_vars

(* ------------------------ renders of several nodes --------------------- *)
\* the most write nodes of a script and the most views of a node
MaxNodes == 2
MaxViews == 2

\* _get_all_nodes_total_outputs of the scripts: up to MaxNodes write nodes,
\* each with 1..MaxViews views
RenderOutputCounts ==
    UNION { [1..n -> 1..MaxViews] : n \in 1..MaxNodes }

\* on_run over a frame range or one frame
RunEnqueueRange == RunEnqueueIn(FrameRanges)

\* start_render in any of the scripts
WorkerExecRender == ExecIn(RenderOutputCounts)

\* a session after on_start returned; on_run is called up to MaxRuns times,
\* the client renders every node over the frames and nothing else is printed
InitRender == InitProgress /\ ~is_rendering

NextRender ==
    \/ OnRun \/ RunSetFlag \/ RunEnqueueRange
    \/ RunChkRunning \/ RunChkRendering \/ RunChkExc \/ RunFinal
    \/ WorkerPoll \/ WorkerExecRender
    \/ WorkerNodeStart \/ WorkerWrite \/ WorkerNodeDone \/ WorkerNodeRaise
    \/ WorkerRenderDone
    \/ ReadLine

SpecRender == InitRender /\ [][NextRender]_vars

(* ------------------------ on_run under fair scheduling ----------------- *)
\* a session after on_start returned, with continue_on_error false or true
InitLive ==
    /\ InitLog
    /\ init_data \in { InitDataOf({"continue_on_error"}, coe) : coe \in BOOLEAN }

\* the steps of the control thread inside on_run
RunSteps ==
    \/ RunSetFlag \/ RunEnqueue
    \/ RunChkRunning \/ RunChkRendering \/ RunChkExc \/ RunFinal

\* the steps of the client that take and carry out an action
WorkerSteps ==
    \/ WorkerPoll \/ WorkerExec
    \/ WorkerNodeStart \/ WorkerWrite \/ WorkerNodeDone \/ WorkerNodeRaise
    \/ WorkerRenderDone

\* the reader takes the next line off the pipe: the steps of ReadLine, as
\* seen on the pipe
Reads == pipe # <<>> /\ pipe' = Tail(pipe)

NextLive ==
    \/ OnRun \/ RunSteps
    \/ OnCancel
    \/ WorkerSteps \/ WorkerPrint \/ WorkerExit
    \/ ReadLine

\* the control thread runs (the loop sleeps 0.1 s and goes on), the reader
\* thread of the subprocess handles every line, and the client goes on with
\* its action whenever its output is taken: it gets to print the render
\* complete line unless it exits
Fairness ==
    /\ WF_vars(RunSteps)
    /\ WF_pipe(Reads)
    /\ SF_vars(WorkerSteps)

SpecLive == InitLive /\ [][NextLive]_vars /\ Fairness

(* --------------------------- frame range strings ----------------------- *)
\* the longest frameRange string
MaxLen == 4

\* the characters of the frameRange strings
FrameChars == {"1", "5", "-", " ", "x", "_"}

\* every frameRange string of up to MaxLen characters, the empty one included
FrameStrings == UNION { [1..n -> FrameChars] : n \in 0..MaxLen }

\* on_run waits and the client has taken a start_render action whose
\* frameRange is one of frs
InitExec(frs) ==
    /\ init_data \in SessionInitData
    /\ env = [v \in {ADAPTOR_ENV_VAR, CLIENT_ENV_VAR} |-> SocketPath]
    /\ server = "AdaptorServer"
    /\ socket_path = SocketPath
    /\ server_thread = "serving"
    /\ nuke_client = "LoggingSubprocess"
    /\ wpc = "exec"
    /\ enq = Cardinality(DOMAIN init_data) + 1
    /\ \E fr \in frs : wact = Action("start_render", fr, enq)
    /\ returncode = NoExitCode
    /\ action_queue = <<>>
    /\ is_rendering = TRUE
    /\ last_delivered = [name |-> "start_render", tag |-> enq]
    /\ pc = "run_chk_running"
    /\ ret = Running("on_run")
    /\ runs = 1
    /\ exc_info = NoExc
    /\ performing_cleanup = FALSE
    /\ curr_output = 1
    /\ total_outputs = 1
    /\ status = [progress |-> 0, message |-> "Initializing Nuke"]
    /\ pipe = <<>>
    /\ died_waiting = FALSE
    /\ terminate_calls = <<>>
    /\ render = NoRender
    /\ logged = {}
    /\ first_exc = NoExc
    /\ wait_exc = NoExc
    /\ pushed = NoPushes
    /\ shutdown_calls = 0
    /\ rules = <<>>
    /\ map_call = NoCall
    /\ stderr_pipe = <<>>
    /\ reading = NoReads

\* the frameRange is any of the strings
InitFrames == InitExec(FrameStrings)

\* start_render up to the first node's nuke.execute
NextFrames == WorkerExec \/ WorkerNodeStart

SpecFrames == InitFrames /\ [][NextFrames]_vars

(* ------------------------------ render order --------------------------- *)
\* scripts of up to MaxNodes write nodes of one view, with any render_order
\* values, in the order of the node graph
OrderScripts ==
    UNION { [1..n -> [order : 1..MaxNodes, views : {1}]] : n \in 1..MaxNodes }

\* start_render of one frame in any of these scripts
InitOrder == InitExec(SessionFrameRanges)

WorkerExecOrder == ExecNodes(OrderScripts)

NextOrder ==
    \/ WorkerExecOrder \/ WorkerNodeStart \/ WorkerWrite \/ WorkerNodeDone
    \/ WorkerNodeRaise \/ WorkerRenderDone \/ ReadLine

SpecOrder == InitOrder /\ [][NextOrder]_vars

(* --------------------------- the two readers --------------------------- *)
\* the output of the stream a reader reads
stream(t) == IF t = "stdout" THEN pipe ELSE stderr_pipe

\* a session after on_start returned, or one whose on_run waits
InitRace == InitProgress

\* Nuke prints an output complete line on one of its streams; the counter
\* and the number of reports of 100 are bounded
PrintStream(t) ==
    /\ wpc \in {"poll", "exec", "render"}
    /\ Len(stream(t)) < MaxPipe
    /\ curr_output <= MaxOutputs
    /\ pushed.hundreds <= MaxOutputs
    /\ IF t = "stdout"
       THEN pipe' = Append(pipe, LineWriting) /\ UNCHANGED stderr_pipe
       ELSE stderr_pipe' = Append(stderr_pipe, LineWriting) /\ UNCHANGED pipe
    /\ UNCHANGED << init_data, rules, map_call, reading, render, logged, first_exc, wait_exc, pushed, shutdown_calls, env, server, socket_path, server_thread, nuke_client,
                    wpc, wact, returncode, action_queue, is_rendering, exc_info,
                    performing_cleanup, curr_output, total_outputs, status, pc,
                    ret, runs, enq, last_delivered, died_waiting, terminate_calls >>

\* variant of the code: each stream has a handler of its own, so the readers
\* do not exclude each other
ReaderLoad_unlocked(t) ==
    /\ stream(t) # <<>>
    /\ reading[t] = <<>>
    /\ MatchesOutputComplete(Head(stream(t)))
    /\ ~check_for_exception_raises(CallbackState)
    /\ reading' = [reading EXCEPT ![t] = <<curr_output>>]
    /\ UNCHANGED << init_data, rules, map_call, stderr_pipe, render, logged, first_exc, wait_exc, pushed, shutdown_calls, env, server, socket_path, server_thread, nuke_client,
                    wpc, wact, returncode, action_queue, is_rendering, exc_info,
                    performing_cleanup, curr_output, total_outputs, status, pipe, pc,
                    ret, runs, enq, last_delivered, died_waiting, terminate_calls >>

\* a reader logs the next line of its stream: the one RegexHandler, given as
\* stdout_handler and as stderr_handler, is entered under its lock
\* (logging.Handler.handle), and _handle_output_complete loads
\* self._curr_output
ReaderLoad(t) ==
    /\ stream(t) # <<>>
    /\ \A u \in Readers : reading[u] = <<>>
    /\ MatchesOutputComplete(Head(stream(t)))
    /\ ~check_for_exception_raises(CallbackState)
    /\ reading' = [reading EXCEPT ![t] = <<curr_output>>]
    /\ UNCHANGED << init_data, rules, map_call, stderr_pipe, render, logged, first_exc, wait_exc, pushed, shutdown_calls, env, server, socket_path, server_thread, nuke_client,
                    wpc, wact, returncode, action_queue, is_rendering, exc_info,
                    performing_cleanup, curr_output, total_outputs, status, pipe, pc,
                    ret, runs, enq, last_delivered, died_waiting, terminate_calls >>

\* _handle_output_complete stores the value it loaded plus 1, reports the
\* progress when rendering, and the handler is left
ReaderStore(t) ==
    /\ reading[t] # <<>>
    /\ \E s \in {handle_output_complete([CallbackState EXCEPT
                                              !.curr_output = reading[t][1]])} :
          /\ curr_output' = s.curr_output
          /\ status' = s.status
          /\ pushed' = IF InOnRun THEN Pushes(pushed, s.pushes) ELSE pushed
    /\ reading' = [reading EXCEPT ![t] = <<>>]
    /\ IF t = "stdout"
       THEN pipe' = Tail(pipe) /\ UNCHANGED stderr_pipe
       ELSE stderr_pipe' = Tail(stderr_pipe) /\ UNCHANGED pipe
    /\ UNCHANGED << init_data, rules, map_call, render, logged, first_exc, wait_exc, shutdown_calls, env, server, socket_path, server_thread, nuke_client,
                    wpc, wact, returncode, action_queue, is_rendering, exc_info,
                    performing_cleanup, total_outputs, pc,
                    ret, runs, enq, last_delivered, died_waiting, terminate_calls >>

NextRace == \E t \in Readers : PrintStream(t) \/ ReaderLoad(t) \/ ReaderStore(t)

SpecRace == InitRace /\ [][NextRace]_vars

(* -------------------------- NukeClient.map_path ------------------------ *)
RECURSIVE SplitSlash(_)
\* p.split("/")
SplitSlash(p) ==
    IF \A i \in 1..Len(p) : p[i] # "/" THEN <<p>>
    ELSE LET k == CHOOSE i \in 1..Len(p) :
                      p[i] = "/" /\ \A j \in 1..(i - 1) : p[j] # "/"
         IN  <<SubSeq(p, 1, k - 1)>> \o SplitSlash(SubSeq(p, k + 1, Len(p)))

\* the components PurePosixPath and os.path.commonpath keep: neither the
\* empty ones nor "."
Parts(p) == SelectSeq(SplitSlash(p), LAMBDA c : c # <<>> /\ c # <<".">>)

\* the number of slashes p starts with
LeadingSlashes(p) ==
    Cardinality({ i \in 1..Len(p) : \A j \in 1..i : p[j] = "/" })

\* PurePosixPath(p).root as a number of slashes: exactly two leading slashes
\* are kept, any other number of them is one
Root(p) ==
    IF LeadingSlashes(p) = 0 THEN 0 ELSE IF LeadingSlashes(p) = 2 THEN 2 ELSE 1

\* PurePosixPath(p), which compares by root and parts
PurePath(p) == [root |-> Root(p), parts |-> Parts(p)]

\* PurePath(p).is_absolute()
is_absolute(p) == Root(p) > 0

RECURSIVE JoinSlash(_)
\* "/".join(parts)
JoinSlash(parts) ==
    IF parts = <<>> THEN <<>>
    ELSE IF Len(parts) = 1 THEN parts[1]
    ELSE parts[1] \o <<"/">> \o JoinSlash(Tail(parts))

\* Path(p).as_posix()
as_posix(p) ==
    IF Root(p) = 0 /\ Parts(p) = <<>> THEN <<".">>
    ELSE [i \in 1..Root(p) |-> "/"] \o JoinSlash(Parts(p))

\* the longest common prefix of two lists of components
CommonPrefix(a, b) ==
    LET n == CHOOSE n \in 0..Len(a) :
                 /\ n <= Len(b)
                 /\ \A i \in 1..n : a[i] = b[i]
                 /\ n < Len(a) /\ n < Len(b) => a[n + 1] # b[n + 1]
    IN  SubSeq(a, 1, n)

\* os.path.commonpath((a, b)) for two paths that are both absolute or both
\* relative
commonpath(a, b) ==
    (IF a # <<>> /\ a[1] = "/" THEN <<"/">> ELSE <<>>)
        \o JoinSlash(CommonPrefix(Parts(a), Parts(b)))

\* the test of map_path and _which_rule_applies: base is path or a parent of it
IsParentOrSelf(base, path) ==
    /\ is_absolute(path) = is_absolute(base)
    /\ PurePath(commonpath(path, base)) = PurePath(base)

\* NukeClient._which_rule_applies: the index of the first rule whose source
\* contains the path, 0 when there is none
which_rule_applies(path, rs) ==
    LET hits == { i \in DOMAIN rs : IsParentOrSelf(rs[i].source_path, path) }
    IN  IF hits = {} THEN 0 ELSE CHOOSE i \in hits : \A j \in hits : i <= j

\* ClientInterface.map_path of the adaptor runtime, which asks the server to
\* apply the rules: the source of the first rule that contains the path is
\* replaced by the rule's destination
client_map_path(path, rs) ==
    LET i == which_rule_applies(path, rs)
    IN  IF i = 0 THEN path
        ELSE LET rest == SubSeq(Parts(path), Len(Parts(rs[i].source_path)) + 1,
                                Len(Parts(path)))
             IN  IF rest = <<>> THEN rs[i].destination_path
                 ELSE IF rs[i].destination_path[Len(rs[i].destination_path)] = "/"
                 THEN rs[i].destination_path \o JoinSlash(rest)
                 ELSE rs[i].destination_path \o <<"/">> \o JoinSlash(rest)

\* variant of the code: the rule is applied also when its destination is a
\* parent of the path
map_path_always(path, rs) ==
    [path |-> path, result |-> as_posix(client_map_path(path, rs)), kept |-> FALSE]

\* NukeClient.map_path: the call with its result; kept: the path was returned
\* as it is because the destination of its rule is a parent of it
map_path(path, rs) ==
    LET i == which_rule_applies(path, rs)
    IN  IF i # 0 /\ IsParentOrSelf(rs[i].destination_path, path)
        THEN [path |-> path, result |-> as_posix(path), kept |-> TRUE]
        ELSE [path |-> path, result |-> as_posix(client_map_path(path, rs)),
              kept |-> FALSE]

\* the characters of the paths
PathChars == {"/", "a", "."}

\* the longest path Nuke asks for
MaxPath == 3

\* every path of 1..MaxPath characters
PathStrings == UNION { [1..n -> PathChars] : n \in 1..MaxPath }

\* the rules the sessions are given: one or two of them
PathRules ==
    [source_path : { <<"/">>, <<"a">> },
     destination_path : { <<"/", "a">>, <<"a", "/", "a">>, <<"a">> }]

RuleLists ==
    { <<r>> : r \in PathRules } \cup { <<r, q>> : r \in PathRules, q \in PathRules }

\* a session after on_start returned: the client polls
InitMapPath == InitLog /\ init_data = InitDataOf({}, TRUE)

\* the session's rules arrive with the first path_mapping_rules() answer
MapRules ==
    /\ rules = <<>>
    /\ rules' \in RuleLists
    /\ UNCHANGED << init_data, map_call, stderr_pipe, reading, render, logged, first_exc, wait_exc, pushed, shutdown_calls, env, server, socket_path, server_thread, nuke_client,
                    wpc, wact, returncode, action_queue, is_rendering, exc_info,
                    performing_cleanup, curr_output, total_outputs, status, pipe, pc,
                    ret, runs, enq, last_delivered, died_waiting, terminate_calls >>

\* Nuke calls the filename filter with a path
MapPath ==
    /\ rules # <<>>
    /\ \E p \in PathStrings : map_call' = map_path(p, rules)
    /\ UNCHANGED << init_data, rules, stderr_pipe, reading, render, logged, first_exc, wait_exc, pushed, shutdown_calls, env, server, socket_path, server_thread, nuke_client,
                    wpc, wact, returncode, action_queue, is_rendering, exc_info,
                    performing_cleanup, curr_output, total_outputs, status, pipe, pc,
                    ret, runs, enq, last_delivered, died_waiting, terminate_calls >>

\* Nuke calls the filename filter with the path the last call returned, as
\* long as the path is short
MapPathAgain ==
    /\ map_call # NoCall
    /\ Len(map_call.result) <= MaxPath
    /\ map_call' = map_path(map_call.result, rules)
    /\ UNCHANGED << init_data, rules, stderr_pipe, reading, render, logged, first_exc, wait_exc, pushed, shutdown_calls, env, server, socket_path, server_thread, nuke_client,
                    wpc, wact, returncode, action_queue, is_rendering, exc_info,
                    performing_cleanup, curr_output, total_outputs, status, pipe, pc,
                    ret, runs, enq, last_delivered, died_waiting, terminate_calls >>

NextMapPath == MapRules \/ MapPath \/ MapPathAgain

SpecMapPath == InitMapPath /\ [][NextMapPath]_vars

(* ================================ claims =============================== *)

\* C1: after _populate_action_queue ran on an empty queue, the queue holds
\* 1 + (number of keys of _NUKE_INIT_KEYS present in init_data) actions, the
\* first of them is script_file, and script_file is the first action the
\* client is handed.
PopulateLengthAndFirst ==
    /\ pc = "start_client" =>
          /\ Len(action_queue) = 1 + Cardinality(NUKE_INIT_KEYS \cap DOMAIN init_data)
          /\ action_queue[1].name = "script_file"
    /\ wpc = "exec" => wact.name = "script_file"

\* every optional key is present and the client was handed its first action
PopulateAllKeysWitness ==
    /\ DOMAIN init_data = NUKE_INIT_KEYS \cup {"script_file"}
    /\ wpc = "exec"
    /\ wact.name = "script_file"
    /\ Len(action_queue) = 4

\* the kinds of action, in the order the session enqueues them
Rank(name) ==
    CASE name = None              -> 0
      [] name = "script_file"     -> 1
      [] name \in NUKE_INIT_KEYS  -> 2
      [] name = "start_render"    -> 3
      [] OTHER                    -> 4

\* the client is handed an action in this step
Delivers == wpc = "poll" /\ wpc' = "exec"

\* C2: actions other than close are handed to the client in the order they
\* were enqueued: each one was enqueued after the one handed over before it
\* and before every one still waiting, so script_file comes before the
\* optional init actions, these before any start_render, and start_render
\* actions in request order.
FifoDelivery ==
    [][ (Delivers /\ wact'.name # "close") =>
          /\ wact'.tag > last_delivered.tag
          /\ Rank(wact'.name) >= Rank(last_delivered.name)
          /\ \A i \in DOMAIN action_queue' :
                action_queue'[i].name # "close" => action_queue'[i].tag > wact'.tag
      ]_vars

\* close was handed over ahead of a start_render enqueued before it, and a
\* second start_render waits behind the first
CloseOvertakesWitness ==
    /\ wpc = "exec"
    /\ wact.name = "close"
    /\ Len(action_queue) >= 2
    /\ action_queue[1].name = "start_render"
    /\ action_queue[2].name = "start_render"

\* C3: on_cleanup's enqueue with front=True puts close at index 0 of a
\* non-empty queue, in front of everything that was there; while close waits
\* it stays at the head and is the next action the client is handed.
CloseAtHead ==
    /\ [](\A i \in DOMAIN action_queue :
             action_queue[i].name = "close" => action_queue[1].name = "close")
    /\ [][ (pc = "cl_enqueue" /\ pc' = "cl_wait") =>
              /\ action_queue'[1].name = "close"
              /\ Len(action_queue') = Len(action_queue) + 1
              /\ \A i \in DOMAIN action_queue :
                    action_queue'[i + 1].tag = action_queue[i].tag
         ]_vars
    /\ [][ (Delivers /\ \E i \in DOMAIN action_queue : action_queue[i].name = "close") =>
              wact'.name = "close"
         ]_vars

\* close waits at the head of a queue with pending work, the client alive
CloseAtHeadWitness ==
    /\ pc = "cl_wait"
    /\ Len(action_queue) >= 2
    /\ action_queue[1].name = "close"
    /\ action_queue[2].name # "close"
    /\ nuke_is_running

\* on_start ends in this step
OnStartEnds == ret.call = "on_start" /\ ret.status = "running" /\ ret'.status # "running"

\* C4 (as stated): on_start returns normally only when the queue is drained,
\* the client is running and no exception is pending.
OnStartReturnsOnlyWhenReady ==
    [][ (OnStartEnds /\ ret'.status = "returned") =>
          /\ Len(action_queue) = 0
          /\ nuke_is_running
          /\ exc_info = NoExc
      ]_vars

\* C5: while init actions remain in the queue on_start does not return
\* normally; TimeoutError is what the loop body raises when the timer has run
\* out, and the RuntimeError after the loop is raised with the client gone and
\* the queue not empty.
InitActionsRemain ==
    [][ OnStartEnds =>
          /\ ret'.status = "returned" => Len(action_queue') = 0
          /\ Len(action_queue) > 0 => ret'.status = "raised"
          /\ pc = "start_chk_timer" <=> ret'.exc.type = "TimeoutError"
          /\ (pc = "start_final" /\ Len(action_queue) > 0) =>
                /\ ~nuke_is_running
                /\ ret'.exc.type = "RuntimeError"
          /\ (nuke_client # None /\ ~nuke_is_running /\ Len(action_queue) > 0) =>
                ret'.exc.type \in {"RuntimeError", "TimeoutError"}
      ]_vars

\* on_start raised the RuntimeError after the loop: the client exited early
\* and the queue is not empty
InitFailedWitness ==
    /\ ret.call = "on_start"
    /\ ret.status = "raised"
    /\ ret.exc.type = "RuntimeError"
    /\ ret.exc # exc_info
    /\ nuke_client # None
    /\ ~nuke_is_running
    /\ Len(action_queue) > 0

\* C6: the client is started only after the server reported its socket path
\* (which then is in the environment); when the path is still missing after
\* the timeout on_start raises RuntimeError and the client is never started.
ClientAfterSocket ==
    /\ [](nuke_client # None =>
             /\ socket_available
             /\ env[ADAPTOR_ENV_VAR] = socket_path)
    /\ []((ret.call = "on_start" /\ ret.exc.msg = <<"Could not find a socket">>) =>
             /\ ret.exc.type = "RuntimeError"
             /\ nuke_client = None)
    /\ [][ (pc = "start_socket_timeout" /\ pc' # pc /\ ~socket_available) =>
              /\ ret'.status = "raised"
              /\ ret'.exc.msg = <<"Could not find a socket">>
         ]_vars

\* the socket never came, on_start raised, and the session was cleaned up
\* without a client ever started
NoSocketWitness ==
    /\ ret.call = "on_cleanup"
    /\ ret.status = "returned"
    /\ socket_path = None
    /\ nuke_client = None
    /\ enq = 1

\* C7 (as stated): when the client process exists, the variable main() reads
\* holds the server's socket path.
ClientEnvIsSet ==
    nuke_client # None => env[CLIENT_ENV_VAR] = socket_path

\* on_run is called in this step
OnRunCalled == pc = "idle" /\ runs' = runs + 1

\* C8: on_run called while the client is not running raises
\* NukeNotRunningError and changes nothing of the adaptor: nothing is
\* enqueued and the is-rendering flag is not set.
NotRunningLeavesState ==
    [][ (OnRunCalled /\ ~nuke_is_running) =>
          /\ ret'.status = "raised"
          /\ ret'.exc.type = "NukeNotRunningError"
          /\ pc' = "idle"
          /\ Len(action_queue') = Len(action_queue)
          /\ enq' = enq
          /\ UNCHANGED << is_rendering, exc_info, performing_cleanup, curr_output,
                          total_outputs, status, nuke_client, server >>
      ]_vars

\* on_run raised NukeNotRunningError in a session whose client had run
NotRunningWitness ==
    /\ ret.call = "on_run"
    /\ ret.status = "raised"
    /\ ret.exc.type = "NukeNotRunningError"
    /\ nuke_client # None
    /\ ~is_rendering

\* on_run ends in this step
OnRunEnds == ret.call = "on_run" /\ ret.status = "running" /\ ret'.status # "running"

\* the RuntimeError on_run raises after the loop, with the exit code
ExitedEarly(e) ==
    /\ e.type = "RuntimeError"
    /\ e.exit_code = returncode
    /\ e.exit_code # NoExitCode

\* C9 (as stated): when the client died while on_run was waiting, on_run ends
\* in the RuntimeError that carries the exit code.
DiedWaitingRaisesExitCode ==
    [][ (OnRunEnds /\ died_waiting) =>
          /\ ret'.status = "raised"
          /\ ExitedEarly(ret'.exc)
      ]_vars

\* C9 (amended): when the client died while on_run was waiting, on_run never
\* returns normally: it ends in the RuntimeError that carries the exit code,
\* or, when the loop's check of the pending exception comes first, in the
\* exception captured from an error line.
DiedWaitingNeverReturns ==
    [][ (OnRunEnds /\ died_waiting) =>
          /\ ret'.status = "raised"
          /\ \/ ExitedEarly(ret'.exc)
             \/ pc = "run_chk_exc" /\ ret'.exc = exc_info /\ exc_info # NoExc
      ]_vars

\* the client died while on_run waited and on_run raised with its exit code
DiedWaitingWitness ==
    /\ ret.call = "on_run"
    /\ ret.status = "raised"
    /\ died_waiting
    /\ ExitedEarly(ret.exc)
    /\ is_rendering

\* the line holds one of the four error markers
HasErrorMarker(l) ==
    \/ Contains(l, LitERROR)
    \/ Contains(l, LitError)
    \/ Contains(l, LitErrorSp)
    \/ Contains(l, LitEddy)

\* C10: a line with one of the four error markers, read with
\* continue_on_error false, leaves one pending RuntimeError whose message
\* holds the line verbatim; with continue_on_error true no exception is
\* recorded.
ErrorLineCaptured ==
    [][ (pipe # <<>> /\ pipe' = Tail(pipe) /\ HasErrorMarker(Head(pipe))) =>
          IF continue_on_error
          THEN exc_info' = NoExc
          ELSE /\ exc_info'.type = "RuntimeError"
               /\ ContainsVerbatim(exc_info'.msg, Head(pipe))
               /\ exc_info'.msg = <<"Nuke Encountered an Error: ">> \o Head(pipe)
      ]_vars

\* the bracketed marker was read with continue_on_error false
ErrorLineWitness ==
    /\ ~continue_on_error
    /\ exc_info.type = "RuntimeError"
    /\ ContainsVerbatim(exc_info.msg, LineEddy)

\* C11 (as stated): an exception captured while on_run is waiting, the client
\* still alive, is what on_run ends with: on_run raises it and does not return
\* normally.
CapturedWhileWaitingIsRaised ==
    [][ (OnRunEnds /\ wait_exc # NoExc /\ nuke_is_running) =>
          /\ ret'.status = "raised"
          /\ ret'.exc = wait_exc
      ]_vars

\* the positions of the control thread inside on_cleanup
CleanupPcs == {"cl_enqueue", "cl_wait", "cl_terminate", "cl_shutdown", "cl_join"}

\* the position that follows each of them
CleanupNext(p) ==
    CASE p = "cl_enqueue"   -> "cl_wait"
      [] p = "cl_wait"      -> "cl_terminate"
      [] p = "cl_terminate" -> "cl_shutdown"
      [] p = "cl_shutdown"  -> "cl_join"
      [] p = "cl_join"      -> "done"

\* the close actions enqueued and not yet performed
Closes ==
    Cardinality({ i \in DOMAIN action_queue : action_queue[i].name = "close" })
      + (IF wact.name = "close" THEN 1 ELSE 0)

\* C12: from the start of on_cleanup until it finishes no check raises the
\* pending exception, neither in on_cleanup nor in the callbacks of the lines
\* read meanwhile; on_cleanup takes every one of its steps in order (enqueue
\* close, wait, terminate, shut down, join) and returns, with close enqueued
\* and the client not running.
CleanupSuppressesExceptions ==
    /\ [](pc \in CleanupPcs => performing_cleanup /\ ~has_exception_raises)
    /\ [][ (pc \in CleanupPcs /\ pc' # pc) =>
              /\ pc' = CleanupNext(pc)
              /\ ret'.status = IF pc' = "done" THEN "returned" ELSE "running"
         ]_vars
    /\ [][ (performing_cleanup /\ pipe # <<>> /\ pipe' = Tail(pipe)) =>
              (emit(Head(pipe)).raised => emit(Head(pipe)).error # None)
         ]_vars
    /\ [](ret = Returns("on_cleanup") =>
             /\ pc = "done"
             /\ Closes = 1
             /\ ~nuke_is_running
             /\ ~performing_cleanup)

\* on_cleanup returned with an exception pending, after it had to terminate
\* the client and had shut the server down
CleanupWithPendingWitness ==
    /\ ret = Returns("on_cleanup")
    /\ exc_info # NoExc
    /\ LogTerminating \in logged
    /\ shutdown_calls = 1

\* C13 (as stated): the pending exception is cleared when on_cleanup
\* finishes, and only then.
PendingClearedByCleanup ==
    /\ [](ret = Returns("on_cleanup") => exc_info = NoExc)
    /\ [][ (exc_info # NoExc /\ exc_info' = NoExc) => (pc = "cl_join" /\ pc' = "done")
         ]_vars

\* C13 (amended): the pending exception is never cleared: once a callback has
\* captured one, an exception stays pending in every later state, also after
\* on_cleanup has returned.
PendingNeverCleared ==
    /\ [][ exc_info # NoExc => exc_info' # NoExc ]_vars
    /\ [](first_exc # NoExc => exc_info # NoExc)

\* on_cleanup has returned and the exception captured before is still pending
PendingAfterCleanupWitness ==
    /\ ret = Returns("on_cleanup")
    /\ pc = "done"
    /\ ~performing_cleanup
    /\ first_exc # NoExc
    /\ exc_info = first_exc

\* C14 (as stated): once an error line has set the pending exception, later
\* error lines do not replace it.
FirstErrorKept ==
    [][ exc_info # NoExc => exc_info' = exc_info ]_vars

\* C14 (amended): the pending exception is one slot that every matching error
\* line overwrites: with continue_on_error false and an exception already
\* pending, reading a line with an error marker leaves the exception made
\* from that line, so the one outstanding error is the last one captured.
LastErrorKept ==
    [][ (pipe # <<>> /\ pipe' = Tail(pipe) /\ HasErrorMarker(Head(pipe))
           /\ ~continue_on_error /\ exc_info # NoExc) =>
          exc_info' = Exc("RuntimeError",
                          <<"Nuke Encountered an Error: ">> \o Head(pipe), NoExitCode)
      ]_vars

\* a later error line has replaced the first exception captured
ErrorReplacedWitness ==
    /\ first_exc # NoExc
    /\ exc_info # NoExc
    /\ exc_info # first_exc

\* the terminate() calls on_cleanup has made
ForcedCalls == Len(SelectSeq(terminate_calls, LAMBDA g : g = "default"))

\* C15 (as stated): when on_cleanup has returned it has attempted the worker's
\* termination exactly once (close enqueued once, terminate() called at most
\* once) and has called the server's shutdown exactly once.
CleanupTerminatesAndShutsDownOnce ==
    ret = Returns("on_cleanup") =>
       /\ Closes = 1
       /\ ForcedCalls <= 1
       /\ shutdown_calls = 1

\* C15 (amended): on_cleanup enqueues close exactly once; it calls
\* terminate() at most once, exactly when the client is still running after
\* the wait; it calls the server's shutdown at most once, exactly when a
\* server exists at that point.
CleanupAttemptsOnce ==
    /\ [](Closes = IF pc \in (CleanupPcs \ {"cl_enqueue"}) \cup {"done"} THEN 1 ELSE 0)
    /\ [](ForcedCalls <= 1 /\ shutdown_calls <= 1)
    /\ [][ (pc = "cl_terminate" /\ pc' # pc) =>
              terminate_calls' = IF nuke_is_running
                                 THEN Append(terminate_calls, "default")
                                 ELSE terminate_calls
         ]_vars
    /\ [][ (pc = "cl_shutdown" /\ pc' # pc) =>
              shutdown_calls' = IF server # None THEN shutdown_calls + 1 ELSE shutdown_calls
         ]_vars
    /\ [][ (pc # "cl_terminate" /\ Len(terminate_calls') > Len(terminate_calls)) =>
              terminate_calls' = Append(terminate_calls, "0")
         ]_vars
    /\ [][ pc # "cl_shutdown" => shutdown_calls' = shutdown_calls ]_vars

\* on_cleanup returned in a session whose client had already exited by
\* itself: terminate() was not called, the server was shut down once
CleanupAfterExitWitness ==
    /\ ret = Returns("on_cleanup")
    /\ nuke_client # None
    /\ terminate_calls = <<>>
    /\ returncode \in ExitCodes
    /\ shutdown_calls = 1

CancelTerminatesOnlyIfRunning ==
    /\ [][ (Len(terminate_calls') > Len(terminate_calls) /\ pc' = pc) =>
              /\ terminate_calls' = Append(terminate_calls, "0")
              /\ nuke_client # None /\ nuke_is_running
              /\ ~nuke_is_running'
              /\ UNCHANGED << action_queue, enq, is_rendering, exc_info,
                              performing_cleanup, curr_output, total_outputs,
                              status, ret, server, server_thread, nuke_client,
                              logged, shutdown_calls >>
         ]_vars
    /\ [][ (LogNothingToCancel \in (logged' \ logged)) =>
              /\ nuke_client = None \/ ~nuke_is_running
              /\ UNCHANGED << terminate_calls, wpc, returncode, action_queue,
                              enq, is_rendering, exc_info, performing_cleanup,
                              curr_output, total_outputs, status, pc, ret,
                              server, server_thread, nuke_client, shutdown_calls >>
         ]_vars

\* a running client was cancelled with no grace time, and a later on_cancel
\* found nothing to cancel
CancelledThenNothingWitness ==
    /\ terminate_calls # <<>>
    /\ terminate_calls[Len(terminate_calls)] = "0"
    /\ LogNothingToCancel \in logged
    /\ nuke_client # None

\* C18: every progress value computed for a line that matches the progress or
\* the output complete rule lies between 0 and 100 (in hundredths: 0..10000),
\* and the computation never fails.
ProgressAlwaysInRange ==
    [][ (pipe # <<>> /\ pipe' = Tail(pipe)) =>
           \A s \in {emit(Head(pipe))} :
              /\ s.error = None
              /\ \A i \in DOMAIN s.pushes : s.pushes[i].progress \in 0..10000
      ]_vars

\* the numbers of q never decrease
NonDecreasing(q) == \A i \in 1..(Len(q) - 1) : q[i] <= q[i + 1]

\* C19: within one on_run the progress values passed to update_status never
\* decrease, whatever the write nodes, views and frames of the render.
ProgressNeverDecreases ==
    [][ (InOnRun /\ pipe # <<>> /\ pipe' = Tail(pipe)) =>
           \A s \in {emit(Head(pipe))} :
              NonDecreasing((IF pushed.any THEN <<status.progress>> ELSE <<>>)
                              \o [i \in DOMAIN s.pushes |-> s.pushes[i].progress])
      ]_vars

IsRangeString(fr) ==
    \E k \in 2..(Len(fr) - 1) :
        /\ fr[k] = "-"
        /\ \A i \in 1..Len(fr) : i # k => fr[i] \in Digits

\* a string "<frame>" of one decimal number
IsFrameString(fr) == fr # <<>> /\ \A i \in 1..Len(fr) : fr[i] \in Digits

\* the frames the two forms stand for
FramesOf(fr) ==
    IF IsFrameString(fr) THEN [start |-> ParseInt(fr), end |-> ParseInt(fr)]
    ELSE LET k == CHOOSE k \in 1..Len(fr) : fr[k] = "-"
         IN  [start |-> ParseInt(SubSeq(fr, 1, k - 1)),
              end |-> ParseInt(SubSeq(fr, k + 1, Len(fr)))]

\* C21: start_render takes "<start>-<end>" as (start, end) and "<frame>" as
\* (frame, frame); for every other string it raises, the process ends and no
\* write node is executed.
FrameRangeParsedOrRejected ==
    \A fr \in {wact.data} :
        wact.name = "start_render" =>
           IF IsRangeString(fr) \/ IsFrameString(fr)
           THEN /\ wpc # "exited"
                /\ FrameRangeParse(fr).start = FramesOf(fr).start
                /\ FrameRangeParse(fr).end = FramesOf(fr).end
           ELSE wpc # "render" /\ ~render.executing

\* C22: start_render calls nuke.execute for the write nodes in ascending
\* render_order. When a call raises and continue_on_error is false the process
\* ends there: no later node is executed and no "Finished Rendering" line is
\* printed. When continue_on_error is true the loop goes on with the next
\* node, and the "Finished Rendering" line is printed once nuke.execute has
\* been called for every node.
RenderOrderAndErrors ==
    /\ [](/\ NonDecreasing(render.orders)
          /\ Len(render.executed) <= Len(render.orders)
          /\ render.executed = SubSeq(render.orders, 1, Len(render.executed)))
    /\ [][ (render'.raised > render.raised /\ ~continue_on_error) =>
              /\ wpc' = "exited"
              /\ render'.executed = render.executed
         ]_vars
    /\ [][ wpc = "exited" =>
              /\ wpc' = "exited"
              /\ render' = render
              /\ Len(pipe') <= Len(pipe)
         ]_vars
    /\ [][ (render'.raised > render.raised /\ continue_on_error) =>
              /\ wpc' = "render"
              /\ render'.node = render.node + 1
              /\ ~render'.executing
         ]_vars
    /\ [][ (wpc = "render" /\ wpc' = "poll") =>
              /\ render.executed = render.orders
              /\ pipe' = Append(pipe, FinishedLine(FrameRangeParse(wact.data).start,
                                                   FrameRangeParse(wact.data).end))
         ]_vars
    /\ [][ (Len(pipe') > Len(pipe) /\ MatchesCompleted(pipe'[Len(pipe')]))
              => (wpc = "render" /\ wpc' = "poll") ]_vars

\* the client continues on errors: the first node's nuke.execute raised and
\* the second node, the one with the greater render_order, is being executed
ContinuedAfterRaiseWitness ==
    /\ continue_on_error
    /\ render.raised = 1
    /\ render.executing
    /\ render.executed = <<1, 2>>
    /\ render.orders = <<1, 2>>

\* the call was made with a path that lies under the destination of the first
\* rule whose source contains it
DestinationIsParent(c) ==
    /\ c # NoCall
    /\ \E i \in {which_rule_applies(c.path, rules)} :
          i # 0 /\ IsParentOrSelf(rules[i].destination_path, c.path)

\* C23: when the destination of the first rule whose source contains the
\* path is a parent of the path, map_path returns the path in posix form and
\* does not apply the rule; mapping what such a call returned returns it
\* again.
MapPathKeepsMappedPath ==
    /\ [](DestinationIsParent(map_call) => map_call.result = as_posix(map_call.path))
    /\ [][ (DestinationIsParent(map_call) /\ map_call' # map_call
              /\ map_call'.path = map_call.result)
             => map_call'.result = map_call.result ]_vars

\* a path under the destination of its rule was mapped and what came back,
\* which differs from the path as written, was mapped again
MappedTwiceWitness ==
    /\ map_call.kept
    /\ map_call.path = <<"/", "a", "/">>
    /\ map_call.result = <<"/", "a">>
    /\ rules[1] = [source_path |-> <<"/">>, destination_path |-> <<"/", "a">>]

\* C24 as stated: current_output >= 1 and total_outputs >= 1 in every state.
CountersAtLeastOne == curr_output >= 1 /\ total_outputs >= 1

\* C24: whatever start_render prints, total_outputs >= 1 and
\* current_output >= 0 in every state; current_output is 0 from the progress
\* line of the first write node until its first output is written.
CountersInRange == curr_output >= 0 /\ total_outputs >= 1

\* the progress line of the first of two write nodes has been handled
CounterAtZeroWitness ==
    /\ curr_output = 0
    /\ total_outputs = 2
    /\ render.executing
    /\ render.node = 1

\* C25: output complete lines handled by the readers of stdout and stderr
\* each add exactly 1 to current_output: no update is lost.
NoLostUpdate ==
    [][ \A t \in Readers :
           (reading[t] # <<>> /\ reading'[t] = <<>>) => curr_output' = curr_output + 1
      ]_vars

\* a line is being handled for one stream while a line waits on the other
BothStreamsWitness ==
    /\ reading["stdout"] # <<>>
    /\ stderr_pipe # <<>>
    /\ curr_output >= 2

\* C26: on_run called while an exception is pending, cleanup is not in
\* progress and the client runs raises that exception at once: it does not go
\* on to set the rendering flag and to enqueue start_render.
PendingRaisedBeforeEnqueue ==
    [][ (pc = "idle" /\ runs' = runs + 1 /\ has_exception_raises /\ nuke_is_running)
          => /\ ret' = Raises("on_run", exc_info)
             /\ pc' = "idle"
             /\ enq' = enq
             /\ is_rendering' = is_rendering
      ]_vars

\* C27: while an exception is pending and cleanup is not in progress, a line
\* that matches the render complete, progress or output complete rule changes
\* neither the rendering flag, the counters nor the pending exception, and no
\* status update is pushed.
PendingSilencesCallbacks ==
    [][ (/\ pipe # <<>> /\ pipe' = Tail(pipe)
         /\ exc_info # NoExc /\ ~performing_cleanup
         /\ \/ MatchesCompleted(Head(pipe))
            \/ ProgressGroups(Head(pipe)) # <<>>
            \/ MatchesOutputComplete(Head(pipe)))
          => /\ UNCHANGED << is_rendering, status, curr_output, total_outputs,
                             exc_info, pushed >>
             /\ emit(Head(pipe)).pushes = <<>>
      ]_vars

\* the completion line of the last start_render was handled with an exception
\* pending: the client polls again and the rendering flag is still set
CompletionSilencedWitness ==
    /\ exc_info # NoExc
    /\ ~performing_cleanup
    /\ is_rendering
    /\ wpc = "poll"
    /\ pipe = <<>>
    /\ last_delivered = [name |-> "start_render", tag |-> enq]
    /\ status.message # "RENDER COMPLETE"

\* C28: every on_run ends, given that the client goes on to print the render
\* complete line or exits (by itself or terminated by on_cancel); start_render
\* is enqueued only with the rendering flag already set, so the completion
\* line of that render cannot be handled before the flag is set.
OnRunEventuallyEnds ==
    /\ InOnRun ~> ~InOnRun
    /\ [][ (InOnRun /\ enq' # enq) => is_rendering ]_vars

\* on_run returned after the completion line of its own render cleared the flag
RunEndedByCompletionWitness ==
    /\ ret = Returns("on_run")
    /\ ~is_rendering
    /\ nuke_is_running
    /\ exc_info = NoExc
    /\ last_delivered = [name |-> "start_render", tag |-> enq]
    /\ status.message = "RENDER COMPLETE"

\* on_run ended in the RuntimeError raised after the loop
RaisedExitedEarly ==
    /\ ret.call = "on_run"
    /\ ret.status = "raised"
    /\ ret.exc.type = "RuntimeError"
    /\ ret.exc.exit_code # NoExitCode

\* C29: once the render complete line has been handled inside an on_run while
\* the client runs, that on_run does not end in the 'Nuke exited early'
\* RuntimeError, whatever the client does afterwards.
CompletionObservedNeverExitedEarly ==
    \A r \in 1..MaxRuns :
        [](  (runs = r /\ InOnRun /\ pushed.completes > 0 /\ nuke_is_running)
              => [](runs = r => ~RaisedExitedEarly) )

\* C30: when on_cleanup has returned, the client is not left running
\* unattended: the process no longer runs or terminate() was called on it, and
\* the cleanup-in-progress flag is false again.
CleanupLeavesNoClient ==
    ret = Returns("on_cleanup") =>
        /\ ~nuke_is_running \/ terminate_calls # <<>>
        /\ ~performing_cleanup

\* on_cleanup returned after it terminated a client that had not closed in time
CleanupTerminatedWitness ==
    /\ ret = Returns("on_cleanup")
    /\ terminate_calls = <<"default">>
    /\ nuke_client # None
    /\ wpc = "exited"
    /\ ~performing_cleanup

====
